---- MODULE Spec2Model ----
(***************************************************************************)
(* A model of solitude's trace debugger: CallStack and EvmTrace.trace_iter *)
(* (solitude/debugger/evm_trace.py), EvmDebugCore                          *)
(* (solitude/debugger/evm_debug_core.py) and InteractiveDebuggerOI         *)
(* (solitude/debugger/oi_debugger.py) behind ObjectInterface.call          *)
(* (solitude/_internal/oi_interface.py).                                   *)
(*                                                                         *)
(* Python's None is the empty tuple and a present value x is <<x>>, so     *)
(* that optional values of any type compare without a type clash.  Opcode  *)
(* mnemonics are upper case as the node reports them; CallStack.add lowers *)
(* them before comparing, the debugger compares them as they are.  Stack   *)
(* words are numbers (the code parses the node's hex strings with int).    *)
(***************************************************************************)
EXTENDS Integers, Sequences, FiniteSets, TLC

VARIABLES
    logs,            \* debug_traceTransaction's structLogs, each with its decoder mapping
    iter,            \* the trace_iter generator: position, CallStack, liveness
    windowsize,      \* EvmDebugCore._windowsize
    window,          \* EvmDebugCore._window
    window_offset,   \* EvmDebugCore._window_offset
    frames,          \* EvmDebugCore._frames (oldest first)
    breakpoints,     \* InteractiveDebuggerOI._breakpoints
    current_frame,   \* InteractiveDebuggerOI._current_frame
    oui_quit,        \* ObjectInterface._oui_quit
    reply,           \* what the last ObjectInterface.call returned
    request,         \* the last request, with the position and depth it was issued at
    evm,             \* the traced transaction: the program's own call nesting
                     \* (SpecTrace), the address it was sent to (SpecDecode)
    tally            \* counters kept beside the program: test_0001_fib's stack_depth and
                     \* max_stack_depth (SpecTrace), a caller's count of its step() calls,
                     \* of the push and pop events of the steps they made current, and
                     \* whether one of them raised (SpecCore)

vars == <<logs, iter, windowsize, window, window_offset, frames, breakpoints, current_frame,
          oui_quit, reply, request, evm, tally>>

(***************************************************************************)
(* Python helpers                                                          *)
(***************************************************************************)
None == <<>>
Some(x) == <<x>>
IsNone(o) == o = <<>>
Get(o) == o[1]

Max(a, b) == IF a >= b THEN a ELSE b

Last(s) == s[Len(s)]
DelLast(s) == SubSeq(s, 1, Len(s) - 1)

\* list[k] in Python: a negative k counts from the end; None here stands for IndexError
PyIndex(s, k) ==
    IF k >= 0
    THEN IF k < Len(s) THEN Some(s[k + 1]) ELSE None
    ELSE IF -k <= Len(s) THEN Some(s[Len(s) + k + 1]) ELSE None

(***************************************************************************)
(* The compiled contract being debugged: contract C of unit src/T.sol.     *)
(* Its source has 14 characters and newlines at offsets 4 and 9:           *)
(*    line 0 = offsets 0..4, line 1 = offsets 5..9, line 2 = 10..13        *)
(* Its AST holds a FunctionDefinition F (one parameter n, one unnamed      *)
(* return value) at 5:4:0, an assignment to an index expression at 6:2:0,  *)
(* an assignment to the identifier x at 10:3:0, a declaration of y at      *)
(* 11:2:0 and a FunctionDefinition G (one unnamed parameter, no return     *)
(* value) at 0:4:0.                                                        *)
(***************************************************************************)
UnitName == "src/T.sol"
ContractName == "C"
Splits == <<4, 9>>
LineLens == <<4, 4, 4>>

\* os.path.split(unitname)[-1]
BaseName(u) == IF u = "src/T.sol" THEN "T.sol" ELSE u

\* a search that finds every offset before the first newline
before_all(splits, index) == 0

\* bisect.bisect_right(splits, index)
RECURSIVE bisect_right(_, _)
bisect_right(splits, index) ==
    IF splits = <<>> \/ splits[1] > index THEN 0
    ELSE 1 + bisect_right(Tail(splits), index)

\* SourcePosToLine.__init__'s _splits for a source given as the sequence of its
\* characters: the offsets, counted from 0, of its newline characters from offset i on
RECURSIVE splits_from(_, _)
splits_from(source, i) ==
    IF i >= Len(source) THEN <<>>
    ELSE (IF source[i + 1] = "\n" THEN <<i>> ELSE <<>>) \o splits_from(source, i + 1)

splits_of(source) == splits_from(source, 0)

\* SourcePosToLine.line_of
line_of(splits, index) ==
    LET at(line_index) ==
            [line_index |-> line_index,
             line_start |-> IF IsNone(PyIndex(splits, line_index - 1)) THEN 0
                            ELSE Get(PyIndex(splits, line_index - 1)) + 1]
    IN  at(bisect_right(splits, index))

\* SourceMapper.get_unitname: the (unitname, fi) table of the one compiled contract
get_unitname(unitname, fi) ==
    IF unitname = UnitName /\ fi = 0 THEN Some(UnitName) ELSE None

\* SourceMapper.get_source
get_source(unitname, st, le, fi) ==
    LET mapping(unitname_fi, lens, lo) ==
            [unitname |-> unitname_fi,
             line_index |-> lo.line_index,
             line_start |-> lo.line_start,
             line_pos |-> IF st - lo.line_start < 0 THEN lens[lo.line_index + 1]
                          ELSE st - lo.line_start]
        of(unitname_fi) ==
            IF IsNone(unitname_fi) THEN mapping(unitname_fi, <<0>>, line_of(<<>>, st))
            ELSE mapping(unitname_fi, LineLens, line_of(Splits, st))
    IN  of(get_unitname(unitname, fi))

\* source.source[st:st + le] of a SourceMapping, as far as names are taken from it
SourceText(unitname_fi, st, le) ==
    IF IsNone(unitname_fi) THEN ""
    ELSE IF st = 6 /\ le = 2 THEN "a[0]" ELSE "?"

NoNodes == [FunctionDefinition |-> None, ExpressionStatement |-> None,
            VariableDeclarationStatement |-> None]

\* EvmDebugCore._astmaps[unitname]["st:le:fi"], by node type
AstMap(unitname, st, le, fi) ==
    IF unitname # Some(UnitName) \/ fi # 0 THEN NoNodes
    ELSE IF st = 5 /\ le = 4 THEN
        [NoNodes EXCEPT !.FunctionDefinition =
            Some([name |-> "F",
                  parameters |-> <<[name |-> Some("n"), type |-> "uint256", st |-> 7, le |-> 1]>>,
                  returnParameters |-> <<[name |-> Some(""), type |-> "uint256", st |-> 8, le |-> 1]>>])]
    ELSE IF st = 6 /\ le = 2 THEN
        [NoNodes EXCEPT !.ExpressionStatement =
            Some([expression |-> "Assignment",
                  leftHandSide |-> [name |-> None, type |-> "uint256", st |-> 6, le |-> 2]])]
    ELSE IF st = 10 /\ le = 3 THEN
        [NoNodes EXCEPT !.ExpressionStatement =
            Some([expression |-> "Assignment",
                  leftHandSide |-> [name |-> Some("x"), type |-> "uint256", st |-> 10, le |-> 1]])]
    ELSE IF st = 0 /\ le = 4 THEN
        [NoNodes EXCEPT !.FunctionDefinition =
            Some([name |-> "G",
                  parameters |-> <<[name |-> Some(""), type |-> "uint256", st |-> 2, le |-> 1]>>,
                  returnParameters |-> <<>>])]
    ELSE IF st = 11 /\ le = 2 THEN
        [NoNodes EXCEPT !.VariableDeclarationStatement =
            Some([declaration |-> "VariableDeclaration",
                  node |-> [name |-> Some("y"), type |-> "uint256", st |-> 11, le |-> 1]])]
    ELSE NoNodes

(***************************************************************************)
(* evm_trace.py: TraceStep, CallStack, trace_iter                          *)
(***************************************************************************)
\* One structLogs entry together with the (st, le, fi, ju) that
\* FrameDecoder.get_mapping gives for its pc.
Raw(op, pc, stack, st, le, fi, ju) ==
    [op |-> op, pc |-> pc, stack |-> stack, st |-> st, le |-> le, fi |-> fi, ju |-> ju]

\* trace_iter numbering its steps from 1
TraceStepFromOne(i, log) ==
    [index |-> i + 1, contractname |-> ContractName, pc |-> log.pc, op |-> log.op,
     stack |-> log.stack, start |-> log.st, length |-> log.le, fileno |-> log.fi,
     jumptype |-> log.ju, code |-> get_source(UnitName, log.st, log.le, log.fi)]

\* trace_iter's TraceStep(index=i, ...)
TraceStep(i, log) ==
    [index |-> i, contractname |-> ContractName, pc |-> log.pc, op |-> log.op,
     stack |-> log.stack, start |-> log.st, length |-> log.le, fileno |-> log.fi,
     jumptype |-> log.ju, code |-> get_source(UnitName, log.st, log.le, log.fi)]

NoEvent == [event |-> "none", data |-> None]

\* CallStack.__init__
CallStackInit == [stack |-> << <<>> >>, prev_step |-> None]

\* CallStack.add without its first test: no jump destination is taken for a return
NeverReturnAddress(level, step) == FALSE

\* CallStack.add with every jump taken for a call, whatever its jump type
AnyJumpCalls(prev) == TRUE

\* CallStack.add with no jump taken for a call
NoJumpCalls(prev) == FALSE

\* CallStack.add taking the call site itself for the return address
IsCallSite(level, step) ==
    Len(level) > 0 /\ step.pc = Last(level).prev.pc

\* The first test of CallStack.add's jumpdest branch: the step is the return address
\* of the call on top of the current level
IsReturnAddress(level, step) ==
    Len(level) > 0 /\ step.pc = Last(level).prev.pc + 1

\* The second test of the jumpdest branch: the jump is marked as going into a function
IsCallJump(prev) == prev.jumptype = "i"

\* CallStack.add: [raised, cs, event]
CallStack_add(cs, step) ==
    LET prev == cs.prev_step
        prev_op == IF IsNone(prev) THEN "none" ELSE Get(prev).op
        op == step.op
        n == Len(cs.stack)
        data == [prev |-> Get(prev), step |-> step]
        done(stack, ev) ==
            [raised |-> FALSE, cs |-> [stack |-> stack, prev_step |-> Some(step)], event |-> ev]
        fail == [raised |-> TRUE, cs |-> cs, event |-> NoEvent]
    IN  IF op = "JUMPDEST" THEN
            IF prev_op = "JUMP" THEN
                IF n = 0 THEN fail
                ELSE IF IsReturnAddress(cs.stack[n], step) THEN
                    done([cs.stack EXCEPT ![n] = DelLast(@)], [event |-> "pop", data |-> None])
                ELSE IF IsCallJump(Get(prev)) THEN
                    done([cs.stack EXCEPT ![n] = Append(@, data)],
                         [event |-> "push", data |-> Some(data)])
                ELSE done(cs.stack, NoEvent)
            ELSE done(cs.stack, NoEvent)
        ELSE IF step.pc = 0 /\ prev_op = "CALL" THEN
            done(Append(cs.stack, <<data>>), [event |-> "push", data |-> Some(data)])
        ELSE IF prev_op = "STOP" THEN
            IF n = 0 THEN fail
            ELSE done(DelLast(cs.stack), [event |-> "pop", data |-> None])
        ELSE done(cs.stack, NoEvent)

\* CallStack.stack: the levels flattened
RECURSIVE Flatten(_)
Flatten(levels) ==
    IF levels = <<>> THEN <<>> ELSE levels[1] \o Flatten(Tail(levels))

\* The generator trace_iter(txhash) before its first next()
IterInit == [i |-> 0, callstack |-> CallStackInit, done |-> FALSE]

\* next() on the generator, over the structLogs `ls`:
\*   kind "yield" with (step, event), "stop" (StopIteration) or "raise"
trace_iter_next(ls, it) ==
    IF it.done \/ it.i >= Len(ls)
    THEN [kind |-> "stop", it |-> [it EXCEPT !.done = TRUE], step |-> None, event |-> NoEvent]
    ELSE LET yielded(step, r) ==
                 IF r.raised
                 THEN [kind |-> "raise", it |-> [it EXCEPT !.done = TRUE],
                       step |-> None, event |-> NoEvent]
                 ELSE [kind |-> "yield",
                       it |-> [i |-> it.i + 1, callstack |-> r.cs, done |-> FALSE],
                       step |-> Some(step), event |-> r.event]
             added(step) == yielded(step, CallStack_add(it.callstack, step))
         IN  added(TraceStep(it.i, ls[it.i + 1]))

(***************************************************************************)
(* evm_debug_core.py: Value, Function, Frame, Step, EvmDebugCore           *)
(***************************************************************************)
Value(vtype, name, value, kind, origin) ==
    [type |-> vtype, name |-> name, value |-> value, kind |-> kind, origin |-> origin]

Function(name, parameters) == [name |-> name, parameters |-> parameters]

\* a Frame anchored twice at the step before the call
FrameAtPrev(prev, cur) ==
    [prev |-> prev, cur |-> prev, locals |-> {}, return_values |-> <<>>, function |-> None]

\* Frame.__init__
Frame(prev, cur) ==
    [prev |-> prev, cur |-> cur, locals |-> {}, return_values |-> <<>>, function |-> None]

\* EvmDebugCore._get_ast_nodes
get_ast_nodes(ts) == AstMap(ts.code.unitname, ts.start, ts.length, ts.fileno)

\* Step.__init__ followed by _move_window's s.ast = ...
Step(ts, event) ==
    [step |-> Some(ts), event |-> event, ast |-> get_ast_nodes(ts), values |-> {}]

\* an INVALID_STEP that holds a trace step
StepOfNothing == Step(TraceStep(0, Raw("STOP", 0, <<>>, 0, 0, -1, "-")), NoEvent)

\* EvmDebugCore.INVALID_STEP
INVALID_STEP == [step |-> None, event |-> NoEvent, ast |-> NoNodes, values |-> {}]

\* Step.valid
valid(s) == ~IsNone(s.step)

\* a dict assignment that drops every other entry
DictOnly(d, var) == {var}

\* a dict keyed by name, held as the set of its values: d[var.name] = var
DictPut(d, var) == {v \in d : v.name # var.name} \cup {var}

\* EvmDebugCore._get_window_rel; None stands for IndexError
get_window_rel(d, i) ==
    IF d.windowsize + i < Len(d.window) THEN PyIndex(d.window, d.windowsize + i)
    ELSE Some(INVALID_STEP)

\* get_step reading one slot further on
get_step_ahead(d, offset) == get_window_rel(d, offset + 1)

\* EvmDebugCore.get_step
get_step(d, offset) == get_window_rel(d, offset)

\* EvmDebugCore.get_callstack_depth
get_callstack_depth(d) == Len(d.frames)

\* EvmDebugCore._move_window: [raised, d]
RECURSIVE move_window(_, _, _)
move_window(ls, d, n) ==
    IF n = 0 THEN [raised |-> FALSE, d |-> d]
    ELSE LET moved(r) ==
                 IF r.kind = "raise"
                 THEN [raised |-> TRUE, d |-> [d EXCEPT !.window = Tail(d.window), !.iter = r.it]]
                 ELSE move_window(ls,
                                  [d EXCEPT !.window =
                                                Append(Tail(d.window),
                                                       IF r.kind = "yield"
                                                       THEN Step(Get(r.step), r.event)
                                                       ELSE INVALID_STEP),
                                            !.window_offset = @ + 1,
                                            !.iter = r.it],
                                  n - 1)
         IN  moved(trace_iter_next(ls, d.iter))

\* EvmDebugCore._extract_variable: a list of at most one Value
extract_variable(ts, astnode, stackpos, origin) ==
    LET named == ~IsNone(astnode.name)
        source == get_source(ts.contractname, astnode.st, astnode.le, 0)
        varname == IF named THEN Get(astnode.name)
                   ELSE SourceText(source.unitname, astnode.st, astnode.le)
        varkind == IF named THEN "variable" ELSE "temporary"
        word == PyIndex(ts.stack, -1 - stackpos)
    IN  IF IsNone(word) THEN <<>>
        ELSE <<Value(astnode.type, varname, Get(word), varkind, origin)>>

\* EvmDebugCore._search_ExpressionStatement
search_ExpressionStatement(ts, stmt) ==
    IF stmt.expression = "Assignment"
    THEN extract_variable(ts, stmt.leftHandSide, 0, "ExpressionStatement")
    ELSE <<>>

\* EvmDebugCore._search_VariableDeclarationStatement
search_VariableDeclarationStatement(ts, stmt) ==
    IF stmt.declaration = "VariableDeclaration"
    THEN extract_variable(ts, stmt.node, 0, "VariableDeclarationStatement")
    ELSE <<>>

RECURSIVE ExtractParams(_, _, _, _, _)
ExtractParams(ts, params, k, base, origin) ==
    IF k > Len(params) THEN <<>>
    ELSE extract_variable(ts, params[k], base - (k - 1), origin)
         \o ExtractParams(ts, params, k + 1, base, origin)

\* EvmDebugCore._search_FunctionDefinition: None or a Function
search_FunctionDefinition(ts, stmt) ==
    LET num_params == Len(stmt.parameters)
    IN  IF Len(ts.stack) < num_params + 1 THEN None
        ELSE Some(Function(stmt.name,
                  ExtractParams(ts, stmt.parameters, 1, num_params - 1, "FunctionDefinition")))

\* EvmDebugCore._search_FunctionReturn: None or a Function whose values are of kind return
search_FunctionReturn(ts, stmt) ==
    LET num_params == Len(stmt.returnParameters)
        returned(vs) ==
            Some(Function(stmt.name, [k \in 1..Len(vs) |-> [vs[k] EXCEPT !.kind = "return"]]))
    IN  IF Len(ts.stack) < num_params + 2 THEN None
        ELSE returned(ExtractParams(ts, stmt.returnParameters, 1, num_params, "FunctionReturn"))

\* step() resolving the function of a frame at every function entry it sees
AnyFrame(f) == TRUE

\* step()'s test `f.function is None`
NoFunctionYet(f) == IsNone(f.function)

\* The values step() recovers at step s in frame f: [raised, values, function]
\* (function: what f.function is afterwards)
Recover(d, s, f) ==
    LET ts == Get(s.step)
        ast == s.ast
        snext == Get(get_window_rel(d, 1))
        \* the CALLVALUE branch, after the first four with the values v4
        callvalue(v4, function) ==
            LET word == PyIndex(Get(snext.step).stack, -1)
            IN  IF v4 = <<>> /\ ts.op = "CALLVALUE" /\ valid(snext)
                THEN IF IsNone(word)
                     THEN [raised |-> TRUE, values |-> <<>>, function |-> f.function]
                     ELSE [raised |-> FALSE,
                           values |-> <<Value("uint256", "msg.value", Get(word),
                                              "variable", "none")>>,
                           function |-> function]
                ELSE [raised |-> FALSE, values |-> v4, function |-> function]
        \* the FunctionDefinition branch at a JUMPDEST, fd being the function found
        entered(v3, fd) ==
            IF v3 = <<>> /\ ~IsNone(ast.FunctionDefinition) /\ ts.op = "JUMPDEST"
               /\ ~IsNone(fd) /\ NoFunctionYet(f)
            THEN callvalue(Get(fd).parameters, fd)
            ELSE callvalue(v3, f.function)
        \* the FunctionDefinition branch at a JUMP, fr being the return found
        returned(v2, fr) ==
            entered(IF v2 = <<>> /\ ~IsNone(ast.FunctionDefinition) /\ ts.op = "JUMP"
                       /\ ~IsNone(fr) /\ ~IsNone(f.function)
                       /\ Get(f.function).name = Get(fr).name
                    THEN Get(fr).parameters
                    ELSE v2,
                    search_FunctionDefinition(ts, Get(ast.FunctionDefinition)))
        \* the VariableDeclarationStatement branch
        declared(v1) ==
            returned(IF v1 = <<>> /\ ~IsNone(ast.VariableDeclarationStatement)
                        /\ ts.op \in {"SWAP1", "SWAP2", "SWAP3"}
                     THEN search_VariableDeclarationStatement(
                              ts, Get(ast.VariableDeclarationStatement))
                     ELSE v1,
                     search_FunctionReturn(ts, Get(ast.FunctionDefinition)))
    IN  declared(IF ~IsNone(ast.ExpressionStatement) /\ ts.op = "SWAP1"
                 THEN search_ExpressionStatement(ts, Get(ast.ExpressionStatement))
                 ELSE <<>>)

\* the filing loop with every value filed into the step, whatever its kind
RECURSIVE FileIntoStep(_, _, _, _)
FileIntoStep(values, k, s, f) ==
    IF k > Len(values) THEN [s |-> s, f |-> f]
    ELSE FileIntoStep(values, k + 1, [s EXCEPT !.values = DictPut(@, values[k])], f)

\* the loop that files the recovered values: into the step, the frame's locals or
\* the frame's return values
RECURSIVE File(_, _, _, _)
File(values, k, s, f) ==
    IF k > Len(values) THEN [s |-> s, f |-> f]
    ELSE LET var == values[k]
         IN  File(values, k + 1,
                  IF var.kind = "temporary"
                  THEN [s EXCEPT !.values = DictPut(@, var)] ELSE s,
                  IF var.kind = "variable"
                  THEN [f EXCEPT !.locals = DictPut(@, var)]
                  ELSE IF var.kind = "return"
                  THEN [f EXCEPT !.return_values = Append(@, var)]
                  ELSE f)

\* a step() that returns without moving the window
step_in_place(ls, d) == [raised |-> FALSE, d |-> d, values |-> <<>>]

\* EvmDebugCore.step: [raised, d, values], values being its local list of the values
\* the heuristics recovered
step(ls, d) ==
    LET filed(d2, rec, fl) ==
            [raised |-> FALSE,
             d |-> [d2 EXCEPT !.frames[Len(d2.frames)] = fl.f,
                              !.window[d.windowsize + 1] = fl.s],
             values |-> rec.values]
        recovered(d2, s, f, rec) ==
            IF rec.raised
            THEN [raised |-> TRUE,
                  d |-> [d2 EXCEPT !.frames[Len(d2.frames)].function = rec.function],
                  values |-> <<>>]
            ELSE filed(d2, rec, File(rec.values, 1, s, [f EXCEPT !.function = rec.function]))
        framed(d2, s) ==
            IF d2.frames = <<>> THEN [raised |-> FALSE, d |-> d2, values |-> <<>>]
            ELSE recovered(d2, s, Last(d2.frames), Recover(d2, s, Last(d2.frames)))
        stepped(d1, s) ==
            IF ~valid(s) THEN [raised |-> FALSE, d |-> d1, values |-> <<>>]
            ELSE IF s.event.event = "pop" /\ d1.frames = <<>>
                 THEN [raised |-> TRUE, d |-> d1, values |-> <<>>]
            ELSE framed([d1 EXCEPT !.frames =
                            IF s.event.event = "push"
                            THEN Append(@, Frame(Some(Get(s.event.data).prev),
                                                 Some(Get(s.event.data).step)))
                            ELSE IF s.event.event = "pop" THEN DelLast(@)
                            ELSE @],
                        s)
        moved(m) ==
            IF m.raised THEN [raised |-> TRUE, d |-> m.d, values |-> <<>>]
            ELSE stepped(m.d, Get(get_window_rel(m.d, 0)))
    IN  moved(move_window(ls, d, 1))

\* EvmDebugCore.__init__(client, txhash, windowsize): [raised, d]
EvmDebugCore_init(ls, w) ==
    LET d0 == [windowsize |-> w,
               window |-> [k \in 1..(1 + 2 * w) |-> INVALID_STEP],
               window_offset |-> 0, frames |-> <<>>, iter |-> IterInit]
        built(m) ==
            LET first_step == Get(get_window_rel(m.d, 0)).step
            IN  [raised |-> m.raised,
                 d |-> [m.d EXCEPT !.frames = <<Frame(first_step, first_step)>>]]
    IN  built(move_window(ls, d0, w + 1))

(***************************************************************************)
(* oi_debugger.py: InteractiveDebuggerOI                                   *)
(***************************************************************************)
\* the bound of _function_def_look_ahead's range(1, 50)
LookAheadEnd == 50

\* InteractiveDebuggerOI._get_function_name
get_function_name(s) ==
    IF ~IsNone(s.ast.FunctionDefinition)
    THEN Some(Get(s.ast.FunctionDefinition).name) ELSE None

\* InteractiveDebuggerOI._function_def_look_ahead, from offset i on
RECURSIVE look_ahead_from(_, _, _, _)
look_ahead_from(d, name, i, push_found) ==
    IF i >= LookAheadEnd THEN FALSE
    ELSE LET s == Get(get_step(d, i))
             found == push_found \/ s.event.event = "push"
         IN  IF ~valid(s) THEN FALSE
             ELSE IF get_function_name(s) # Some(name) THEN FALSE
             ELSE IF Get(s.step).op = "JUMPDEST" /\ ~found THEN TRUE
             ELSE look_ahead_from(d, name, i + 1, found)

function_def_look_ahead(d, name) == look_ahead_from(d, name, 1, FALSE)

\* "%s:%d" % (os.path.split(unitname)[-1], 1 + line_index)
file_bp_name(code) == BaseName(Get(code.unitname)) \o ":" \o ToString(1 + code.line_index)

\* the guard of _check_break's function-name branch
AtFunctionEntry(s, prev, depth) ==
    /\ Get(s.step).op = "JUMPDEST"
    /\ valid(prev)
    /\ Get(prev.step).jumptype # "o"
    /\ depth > 0

\* the file:line branch of _check_break
FileBreak(s, prev, bps) ==
    /\ ~IsNone(Get(s.step).code.unitname)
    /\ \/ ~valid(prev)
       \/ <<Get(s.step).code.unitname, Get(s.step).code.line_index>>
            # <<Get(prev.step).code.unitname, Get(prev.step).code.line_index>>
    /\ file_bp_name(Get(s.step).code) \in bps

\* InteractiveDebuggerOI._check_break: the name of the exception raised, or "none"
check_break(d, bps, depth) ==
    LET s == Get(get_step(d, 0))
        prev == Get(get_step(d, -1))
        ts == Get(s.step)
        fname == get_function_name(s)
        function_name == Get(fname)
    IN  IF ts.op = "REVERT" THEN "revert"
        ELSE IF AtFunctionEntry(s, prev, depth) /\ ~IsNone(fname)
                /\ function_def_look_ahead(d, function_name)
        THEN "none"
        ELSE IF AtFunctionEntry(s, prev, depth) /\ ~IsNone(fname)
                /\ {function_name, ts.contractname \o "." \o function_name} \cap bps # {}
        THEN "breakpoint"
        ELSE IF FileBreak(s, prev, bps) THEN "breakpoint"
        ELSE "none"

\* _same_source with no two ranges taken for the same
NeverSameSource(s1, s2) == FALSE

\* InteractiveDebuggerOI._same_source
same_source(s1, s2) ==
    IF s1.fileno = -1 /\ s2.fileno = -1 THEN TRUE
    ELSE <<s1.start, s1.length, s1.fileno>> = <<s2.start, s2.length, s2.fileno>>

\* the three tests that end `step` (and `next`, at a depth it looks at)
StepStop(prev, s) ==
    \/ ~valid(prev) /\ valid(s)
    \/ ~same_source(Get(s.step), Get(prev.step))
    \/ s.values # {}

\* `next` without its depth test
LooksAtAnyDepth(depth, prev_depth) == TRUE

\* the depth test of `next`
NextLooks(depth, prev_depth) == depth <= prev_depth

Raise(d, name, args) == [d |-> d, exc |-> name, args |-> args, depth |-> 0]

\* the end of the loop body reached without a raise: the loop goes round again
Again(d, depth) == [d |-> d, exc |-> "again", args |-> <<>>, depth |-> depth]

\* one pass through the body of the while loop of InteractiveDebuggerOI._continue: it
\* raises or goes round again with the local `depth` as the pass leaves it
continue_body(ls, d0, bps, function, prev_depth, prev, depth0) ==
    LET checked(d, s, depth, cb) ==
            LET absdepth == get_callstack_depth(d)
                next_s == Get(get_step(d, 1))
            IN  IF cb # "none" THEN Raise(d, cb, <<>>)
                ELSE IF function = "stepi" THEN Raise(d, "step", <<>>)
                ELSE IF function = "step" THEN
                    IF StepStop(prev, s) THEN Raise(d, "step", <<>>)
                    ELSE Again(d, depth)
                ELSE IF function = "next" THEN
                    IF NextLooks(absdepth, prev_depth) /\ StepStop(prev, s)
                    THEN Raise(d, "step", <<>>)
                    ELSE Again(d, absdepth)
                ELSE IF function = "finish" THEN
                    IF ~valid(next_s)
                    THEN Raise(d, "step", <<"warning", "program_terminated">>)
                    ELSE IF absdepth < prev_depth
                    THEN Raise(d, "step", <<"warning", "unexpected_return">>)
                    ELSE IF absdepth = prev_depth /\ next_s.event.event = "pop"
                    THEN Raise(d, "step", <<"return">>)
                    ELSE Again(d, absdepth)
                ELSE Again(d, depth)
        counted(d, s, depth) == checked(d, s, depth, check_break(d, bps, depth))
        at(d, s) ==
            IF ~valid(s) THEN Raise(d, "terminate", <<>>)
            ELSE counted(d, s, IF s.event.event = "push" THEN depth0 + 1
                               ELSE IF s.event.event = "pop" THEN depth0 - 1
                               ELSE depth0)
        stepped(r) ==
            IF r.raised THEN Raise(r.d, "Exception", <<>>)
            ELSE at(r.d, Get(get_step(r.d, 0)))
    IN  stepped(step(ls, d0))

\* the while loop of InteractiveDebuggerOI._continue: it ends by raising
RECURSIVE continue_loop(_, _, _, _, _, _, _)
continue_loop(ls, d0, bps, function, prev_depth, prev, depth0) ==
    LET passed(r) ==
            IF r.exc = "again"
            THEN continue_loop(ls, r.d, bps, function, prev_depth, prev, r.depth)
            ELSE r
    IN  passed(continue_body(ls, d0, bps, function, prev_depth, prev, depth0))

\* _continue with `continue` given the stop condition of `step`
ContinueStopsLikeStep(ls, d, bps, function) ==
    continue_loop(ls, d, bps, IF function = "continue" THEN "step" ELSE function,
                  get_callstack_depth(d), Get(get_step(d, 0)), 0)

\* _continue with `stepi` given the stop condition of `step`
StepiStopsLikeStep(ls, d, bps, function) ==
    continue_loop(ls, d, bps, IF function = "stepi" THEN "step" ELSE function,
                  get_callstack_depth(d), Get(get_step(d, 0)), 0)

\* InteractiveDebuggerOI._continue
oi_continue(ls, d, bps, function) ==
    continue_loop(ls, d, bps, function, get_callstack_depth(d), Get(get_step(d, 0)), 0)

\* cmd_finish without the step it takes before calling _continue
FinishWithoutFirstStep(ls, d, bps) == oi_continue(ls, d, bps, "finish")

\* InteractiveDebuggerOI.cmd_finish
cmd_finish(ls, d, bps) ==
    LET stepped(r) ==
            IF r.raised THEN Raise(r.d, "Exception", <<>>)
            ELSE oi_continue(ls, r.d, bps, "finish")
    IN  stepped(step(ls, d))

\* the "code" of a response: format_code of the current step
format_code(ts) == [path |-> ts.code.unitname, line_index |-> ts.code.line_index]

Contains(seq, x) == \E k \in 1..Len(seq) : seq[k] = x

Reply(status, type) ==
    [status |-> status, type |-> type, code |-> None, assigned_values |-> {},
     is_return |-> FALSE, return_values |-> <<>>]

\* on_step
on_step(d, args) ==
    LET s == Get(get_step(d, 0))
    IN  [Reply("ok", "step") EXCEPT
            !.code = Some(format_code(Get(s.step))),
            !.assigned_values = s.values,
            !.is_return = Contains(args, "return"),
            !.return_values = IF Contains(args, "return") /\ d.frames # <<>>
                              THEN Last(d.frames).return_values ELSE <<>>]

\* on_breakpoint and on_revert
on_stop(d, type) ==
    [Reply("ok", type) EXCEPT !.code = Some(format_code(Get(Get(get_step(d, 0)).step)))]

(***************************************************************************)
(* oi_interface.py: ObjectInterface.call                                   *)
(***************************************************************************)
\* ObjectInterface._oui_handle_error for the exception a stepping command ended with:
\* [reply, quit]
\* an error handling whose on_terminate never calls quit()
handle_and_stay(e) ==
    [reply |-> IF e.exc = "terminate" THEN Reply("ok", "end")
               ELSE Reply("error", "UnhandledException"),
     quit |-> FALSE]

oui_handle_error(e) ==
    IF e.exc = "step" THEN [reply |-> on_step(e.d, e.args), quit |-> FALSE]
    ELSE IF e.exc \in {"breakpoint", "revert"}
    THEN [reply |-> on_stop(e.d, e.exc), quit |-> FALSE]
    ELSE IF e.exc = "terminate" THEN [reply |-> Reply("ok", "end"), quit |-> TRUE]
    ELSE [reply |-> Reply("error", "UnhandledException"), quit |-> FALSE]

Dbg == [windowsize |-> windowsize, window |-> window, window_offset |-> window_offset, frames |-> frames, iter |-> iter]

\* the index in the trace of the current step: each _move_window slot is one step
Position(d) == d.window_offset - (d.windowsize + 1)

Stepping == {"continue", "stepi", "step", "next", "finish"}

\* what a request records of the state it was issued in
Request(command, arg) ==
    [command |-> command, arg |-> arg, position |-> Position(Dbg),
     depth |-> Len(frames)]

SetDbg(d) ==
    /\ window' = d.window
    /\ window_offset' = d.window_offset
    /\ frames' = d.frames
    /\ iter' = d.iter

\* ObjectInterface.call with one of the stepping commands
CallStepping(command) ==
    LET handled(e, h) ==
            /\ reply' = h.reply
            /\ oui_quit' = h.quit
            /\ SetDbg(e.d)
        raised(e) == handled(e, oui_handle_error(e))
    IN  /\ request' = Request(command, None)
        /\ IF oui_quit
           THEN /\ reply' = Reply("quit", "none")
                /\ UNCHANGED <<window, window_offset, frames, iter, oui_quit>>
           ELSE raised(IF command = "finish" THEN cmd_finish(logs, Dbg, breakpoints)
                       ELSE oi_continue(logs, Dbg, breakpoints, command))
        /\ UNCHANGED <<logs, windowsize, breakpoints, current_frame, evm, tally>>

Continue == CallStepping("continue")
Stepi == CallStepping("stepi")
StepCmd == CallStepping("step")
NextCmd == CallStepping("next")
Finish == CallStepping("finish")

\* the breakpoint names a user gives: a function, Contract.function, file:line
BreakpointNames == {"F", "C.F", "T.sol:2"}

\* cmd_break
Break(name) ==
    /\ request' = Request("break", Some(name))
    /\ IF oui_quit
       THEN reply' = Reply("quit", "none") /\ UNCHANGED breakpoints
       ELSE reply' = Reply("ok", "break") /\ breakpoints' = breakpoints \cup {name}
    /\ UNCHANGED <<logs, windowsize, window, window_offset, frames, iter, current_frame,
                   oui_quit, evm, tally>>

\* cmd_delete answering as it does and removing nothing
DeleteRemovesNothing(name) ==
    /\ request' = Request("delete", Some(name))
    /\ reply' = IF oui_quit THEN Reply("quit", "none")
                ELSE [status |-> "ok", type |-> "delete",
                      breakpoint_found |-> name \in breakpoints, breakpoint_name |-> name]
    /\ UNCHANGED <<logs, windowsize, window, window_offset, frames, iter, current_frame,
                   oui_quit, evm, tally, breakpoints>>

\* cmd_delete
Delete(name) ==
    /\ request' = Request("delete", Some(name))
    /\ IF oui_quit
       THEN reply' = Reply("quit", "none") /\ UNCHANGED breakpoints
       ELSE /\ reply' = [status |-> "ok", type |-> "delete",
                         breakpoint_found |-> name \in breakpoints,
                         breakpoint_name |-> name]
            /\ breakpoints' = breakpoints \ {name}
    /\ UNCHANGED <<logs, windowsize, window, window_offset, frames, iter, current_frame,
                   oui_quit, evm, tally>>

(***************************************************************************)
(* The debugging session: InteractiveDebuggerOI(txhash, client) built over *)
(* a trace of contract C, then any commands.  The traces are all sequences *)
(* of at most MaxLen of the steps in Steps, and all sequences of at most   *)
(* MaxCallLen steps of CallSteps that follow the code's control flow (F    *)
(* called, calling itself and returning).                                  *)
(***************************************************************************)
MaxLen == 3
MaxCallLen == 6

\* InteractiveDebuggerOI passes windowsize=50; the sessions here use a window that is
\* longer than every trace, so that like the 50 it never cuts a trace short
SessionWindow == 8

\* a call site at pc 1 (line 0) and its return address at pc 2, the entry of F at
\* pc 4 and F's returning jump at pc 6 (line 1, the FunctionDefinition's range)
CallSteps ==
    { Raw("JUMP", 1, <<2>>, 0, 2, 0, "i"),
      Raw("JUMPDEST", 4, <<2, 7>>, 5, 4, 0, "-"),
      Raw("JUMP", 6, <<2, 7, 2>>, 5, 4, 0, "o"),
      Raw("JUMPDEST", 2, <<7>>, 2, 2, 0, "-") }

\* a call from compiler-generated code (file index -1) and the entry of F again, an
\* assignment to a[0] (line 1), an assignment to x (line 2), a REVERT (line 0) and
\* another instruction of compiler-generated code
Steps ==
    { Raw("JUMP", 12, <<2>>, 1, 0, -1, "i"),
      Raw("JUMPDEST", 4, <<2, 7>>, 5, 4, 0, "-"),
      Raw("SWAP1", 5, <<7>>, 6, 2, 0, "-"),
      Raw("SWAP1", 7, <<7>>, 10, 3, 0, "-"),
      Raw("REVERT", 8, <<>>, 0, 2, 0, "-"),
      Raw("PUSH1", 9, <<>>, 0, 0, -1, "-") }

SeqsUpTo(S, n) == UNION {[1..k -> S] : k \in 0..n}

\* the control flow of that code: the call site jumps to F's entry, F's returning
\* jump lands on the return address, and after a jump destination either jump may come
Follows(a, b) ==
    IF a.op = "JUMP" THEN b.op = "JUMPDEST" /\ (a.ju = "i") = (b.pc = 4)
    ELSE b.op = "JUMP"

CallTraces ==
    {t \in SeqsUpTo(CallSteps, MaxCallLen) : \A k \in 1..(Len(t) - 1) : Follows(t[k], t[k + 1])}

Traces == SeqsUpTo(Steps, MaxLen) \cup CallTraces

NoRequest ==
    [command |-> "none", arg |-> None, position |-> 0, depth |-> 0]

\* the executing code as it really is: the call sites of the internal calls that are
\* active (innermost last), the jump that was just executed and is about to land, the
\* deepest nesting so far, and whether a call has landed on the return address of the
\* innermost active call
NoEvm == [nest |-> <<>>, pending |-> "none", site |-> 0, max_nest |-> 0, aliased |-> FALSE]

\* the counters of test_0001_fib's loop, and the numbers of push and pop events
NoTally == [stack_depth |-> 0, max_stack_depth |-> 0, pushes |-> 0, pops |-> 0]


Init ==
    /\ logs \in Traces
    /\ windowsize = SessionWindow
    /\ \E c \in {EvmDebugCore_init(logs, SessionWindow)} :
           /\ ~c.raised
           /\ window = c.d.window
           /\ window_offset = c.d.window_offset
           /\ frames = c.d.frames
           /\ iter = c.d.iter
    /\ breakpoints = {}
    /\ current_frame = 0
    /\ oui_quit = FALSE
    /\ reply = Reply("none", "none")
    /\ request = NoRequest
    /\ evm = NoEvm
    /\ tally = NoTally

Next ==
    \/ Continue
    \/ Stepi
    \/ StepCmd
    \/ NextCmd
    \/ Finish
    \/ \E name \in BreakpointNames : Break(name)
    \/ \E name \in BreakpointNames : Delete(name)

Spec == Init /\ [][Next]_vars

(***************************************************************************)
(* test_0001_fib's loop over EvmTrace.trace_iter, on a trace that grows by *)
(* one executed instruction at a time, at most MaxTrace of them.  The code *)
(* executed: the entry code calls G from the call site at pc 1; G (entry   *)
(* at pc 6) calls itself from pc 7 and H from pc 9; H's entry, pc 2, is    *)
(* the JUMPDEST that follows the call site at pc 1.  A call returns to its *)
(* call-site pc + 1; any function may jump to a loop head (pc 16) and run  *)
(* other instructions.  At most MaxNest calls are active at a time.        *)
(***************************************************************************)
MaxTrace == 12
MaxNest == 3

CallSites == {1, 7, 9}

\* the entry a call site jumps to
Target(site) == IF site = 9 THEN 2 ELSE 6

\* the call sites in the code of the function that is executing
SitesHere ==
    IF evm.nest = <<>> THEN {1}
    ELSE IF Target(Last(evm.nest)) = 6 THEN {7, 9}
    ELSE {}

\* the body of `for step, callstack_event in debugger.trace_iter(tx.txhash)` for the
\* next structLogs entry `log`
TraceIterStep(log) ==
    LET counted(e, sd) ==
            tally' = [stack_depth |-> sd,
                      max_stack_depth |-> Max(tally.max_stack_depth, sd),
                      pushes |-> tally.pushes + (IF e = "push" THEN 1 ELSE 0),
                      pops |-> tally.pops + (IF e = "pop" THEN 1 ELSE 0)]
        looped(r) ==
            /\ r.kind = "yield"
            /\ logs' = Append(logs, log)
            /\ iter' = r.it
            /\ counted(r.event.event,
                       IF r.event.event = "push" THEN tally.stack_depth + 1
                       ELSE IF r.event.event = "pop" THEN tally.stack_depth - 1
                       ELSE tally.stack_depth)
    IN  /\ Len(logs) < MaxTrace
        /\ looped(trace_iter_next(Append(logs, log), iter))
        /\ UNCHANGED <<windowsize, window, window_offset, frames, breakpoints,
                       current_frame, oui_quit, reply, request>>

\* a call site executes its JUMP into a function
TraceCall(site) ==
    /\ evm.pending = "none"
    /\ site \in SitesHere
    /\ Len(evm.nest) < MaxNest
    /\ TraceIterStep(Raw("JUMP", site, <<>>, 0, 2, 0, "i"))
    /\ evm' = [evm EXCEPT !.pending = "call", !.site = site]

\* the call lands on the entry of the function called
TraceEnter ==
    /\ evm.pending = "call"
    /\ TraceIterStep(Raw("JUMPDEST", Target(evm.site), <<>>, 5, 4, 0, "-"))
    /\ evm' = [evm EXCEPT !.pending = "none",
                          !.nest = Append(@, evm.site),
                          !.max_nest = Max(@, Len(evm.nest) + 1),
                          !.aliased = @ \/ (evm.nest # <<>>
                                            /\ Target(evm.site) = Last(evm.nest) + 1)]

\* the innermost active function executes its returning JUMP
TraceReturn ==
    /\ evm.pending = "none"
    /\ evm.nest # <<>>
    /\ TraceIterStep(Raw("JUMP", 12, <<>>, 5, 4, 0, "o"))
    /\ evm' = [evm EXCEPT !.pending = "return"]

\* the return lands on the JUMPDEST that follows the call site
TraceResume ==
    /\ evm.pending = "return"
    /\ TraceIterStep(Raw("JUMPDEST", Last(evm.nest) + 1, <<>>, 0, 2, 0, "-"))
    /\ evm' = [evm EXCEPT !.pending = "none", !.nest = DelLast(@)]

\* a jump inside the current function, to the head of a loop
TraceJump ==
    /\ evm.pending = "none"
    /\ TraceIterStep(Raw("JUMP", 14, <<>>, 6, 2, 0, "-"))
    /\ evm' = [evm EXCEPT !.pending = "jump"]

\* that jump lands
TraceLand ==
    /\ evm.pending = "jump"
    /\ TraceIterStep(Raw("JUMPDEST", 16, <<>>, 6, 2, 0, "-"))
    /\ evm' = [evm EXCEPT !.pending = "none"]

\* an instruction that is no jump
TracePlain ==
    /\ evm.pending = "none"
    /\ TraceIterStep(Raw("PUSH1", 5, <<>>, 6, 2, 0, "-"))
    /\ UNCHANGED evm

InitTrace ==
    /\ logs = <<>>
    /\ iter = IterInit
    /\ evm = NoEvm
    /\ tally = NoTally
    /\ windowsize = 0
    /\ window = <<>>
    /\ window_offset = 0
    /\ frames = <<>>
    /\ breakpoints = {}
    /\ current_frame = 0
    /\ oui_quit = FALSE
    /\ reply = Reply("none", "none")
    /\ request = NoRequest

NextTrace ==
    \/ \E site \in CallSites : TraceCall(site)
    \/ TraceEnter
    \/ TraceReturn
    \/ TraceResume
    \/ TraceJump
    \/ TraceLand
    \/ TracePlain

SpecTrace == InitTrace /\ [][NextTrace]_vars

(***************************************************************************)
(* The call stack events of trace_iter (SpecTrace)                         *)
(***************************************************************************)
\* every call made has returned
TraceComplete == evm.pending = "none" /\ evm.nest = <<>>

\* C1 as stated: after every step of a trace of properly nested internal calls the
\* running count of push events minus pop events is the true nesting depth, and its
\* maximum is the deepest nesting reached (the entry function's frame included)
C1_CountIsDepth ==
    /\ tally.stack_depth = Len(evm.nest)
    /\ tally.max_stack_depth = evm.max_nest

\* C1, amended: the same, for traces in which no call has landed on the JUMPDEST that
\* follows the call site of the innermost active call
C1_CountIsDepthUnlessAliased ==
    ~evm.aliased => C1_CountIsDepth

\* C1: G, called from the entry code, has called itself twice over (three calls
\* nested) and all have returned, with no call landing on a return address
C1_Witness ==
    /\ ~evm.aliased
    /\ TraceComplete
    /\ evm.max_nest = 3
    /\ tally.max_stack_depth = 3
    /\ tally.stack_depth = 0

\* C2: CallStack.add never emits more pop events than push events, and over a trace
\* in which every internal call made has returned it emits exactly as many
C2_PushPopBalanced ==
    /\ tally.pops <= tally.pushes
    /\ tally.stack_depth = tally.pushes - tally.pops
    /\ TraceComplete => tally.pops = tally.pushes

\* C2: two nested calls were made and both have returned
C2_Witness ==
    /\ TraceComplete
    /\ evm.max_nest = 2
    /\ tally.pushes = 2
    /\ tally.pops = 2

(***************************************************************************)
(* The stepping commands (Spec).  A state holds the last request, with the *)
(* position and the depth it was issued at, and the response to it.        *)
(***************************************************************************)
\* the index of the step that was current when the last command was issued, and of
\* the one that is current now
P0 == request.position
P1 == Position(Dbg)

\* the last command was `command` and it ran (the session had not ended before)
Ran(command) == request.command = command /\ reply.status = "ok"

\* the instructions the last command made current, one after the other
Reached == {k \in (P0 + 1)..P1 : k < Len(logs)}

\* the instructions among them that it did not stop at
Passed == Reached \ {P1}

\* the debugger as it is when instruction k is current
RECURSIVE StateAt(_)
StateAt(k) ==
    IF k = 0 THEN EvmDebugCore_init(logs, windowsize).d
    ELSE step(logs, StateAt(k - 1)).d

DepthAt(k) == Len(StateAt(k).frames)

\* the heuristics recovered a value at instruction k, of whatever kind
RecoveredAt(k) == step(logs, StateAt(k - 1)).values # <<>>

\* a value of kind temporary was filed into the step of instruction k
TemporaryAt(k) == Get(get_step(StateAt(k), 0)).values # {}

\* the source ranges of instructions j and k differ
RangeDiffers(j, k) ==
    <<logs[j + 1].st, logs[j + 1].le, logs[j + 1].fi>>
        # <<logs[k + 1].st, logs[k + 1].le, logs[k + 1].fi>>

\* the same, two ranges of compiler-generated code (file index -1) counting as equal
SourceDiffers(j, k) ==
    RangeDiffers(j, k) /\ ~(logs[j + 1].fi = -1 /\ logs[k + 1].fi = -1)

\* C3: a `continue` never answers with type step; when it runs, its answer is of
\* type breakpoint, revert or end
C3_ContinueNeverSteps ==
    request.command = "continue" =>
        /\ reply.type # "step"
        /\ reply.status = "ok" => reply.type \in {"breakpoint", "revert", "end"}

\* C3: a `continue` has run past an instruction whose source range differs from the
\* starting one and has stopped further on at a breakpoint
C3_Witness ==
    /\ Ran("continue")
    /\ reply.type = "breakpoint"
    /\ \E k \in Passed : SourceDiffers(P0, k)

\* C7: a `stepi` that runs makes the instruction after the current one current and
\* answers with type step, breakpoint or revert; when there is none it answers end
C7_StepiAdvancesOne ==
    Ran("stepi") =>
        IF P0 + 1 < Len(logs)
        THEN P1 = P0 + 1 /\ reply.type \in {"step", "breakpoint", "revert"}
        ELSE reply.type = "end"

\* C7: a `stepi` issued after the first instruction has moved by one instruction, of
\* the same source range as the one before, and answered with type step
C7_Witness ==
    /\ Ran("stepi")
    /\ P0 > 0
    /\ P1 = P0 + 1
    /\ P1 < Len(logs)
    /\ ~RangeDiffers(P0, P1)
    /\ reply.type = "step"

\* the stop condition of `step` at instruction k, as C8 states it: another source
\* range than the starting instruction's, or a value recovered by the heuristics
StatedStepStop(k) == RangeDiffers(P0, k) \/ RecoveredAt(k)

\* the stop condition of `step` at instruction k: another source range than the
\* starting instruction's (compiler-generated ranges all alike), or a temporary filed
StepStopAt(k) == SourceDiffers(P0, k) \/ TemporaryAt(k)

\* C8 as stated: a `step` that answers with type step has stopped at an instruction
\* whose source range differs from the starting one's or at which a value was
\* recovered, and it has run past no such instruction
C8_StepStopsAtRecovered ==
    Ran("step") =>
        /\ reply.type = "step" => StatedStepStop(P1)
        /\ \A k \in Passed : ~StatedStepStop(k)

\* C8, amended: the same with the source ranges of compiler-generated code (file
\* index -1) counting as equal and with only the values of kind temporary, which are
\* filed into the step, counting as recovered
C8_StepStopsAtTemporary ==
    Ran("step") =>
        /\ reply.type = "step" => StepStopAt(P1)
        /\ \A k \in Passed : ~StepStopAt(k)

\* C8: a `step` has run past an instruction of the starting source range at which a
\* named variable was recovered, and has stopped with type step at the next one
C8_Witness ==
    /\ Ran("step")
    /\ reply.type = "step"
    /\ P1 = P0 + 2
    /\ RecoveredAt(P0 + 1)

\* C9: a `next` that answers with type step has stopped where the frame stack is no
\* deeper than when it was issued and the stop condition of `step` holds, and it has
\* run past no such instruction
C9_NextStepsOver ==
    Ran("next") =>
        /\ reply.type = "step" => Len(frames) <= request.depth /\ StepStopAt(P1)
        /\ \A k \in Passed : ~(DepthAt(k) <= request.depth /\ StepStopAt(k))

\* C9: a `next` has run through a call, past an instruction of another source range
\* in the deeper frame, and has stopped with type step back at its own depth
C9_Witness ==
    /\ Ran("next")
    /\ reply.type = "step"
    /\ Len(frames) = request.depth
    /\ \E k \in Passed : DepthAt(k) > request.depth /\ StepStopAt(k)

\* the call stack event of instruction k
EventAt(k) == Get(get_step(StateAt(k), 0)).event.event

\* the stop condition of `finish` at instruction k for a depth d
ReturnsFrom(d, k) ==
    \/ DepthAt(k) < d
    \/ DepthAt(k) = d /\ k + 1 < Len(logs) /\ EventAt(k + 1) = "pop"

RanStepping == request.command \in Stepping /\ reply.status = "ok"

\* instruction k is the entry of an activation of F: a JUMPDEST whose source range is
\* that of F's FunctionDefinition node, reached by a call
EntryOfF(k) ==
    /\ k >= 1
    /\ logs[k + 1].op = "JUMPDEST"
    /\ get_function_name(Get(get_step(StateAt(k), 0))) = Some("F")
    /\ logs[k].op = "JUMP"
    /\ logs[k].ju = "i"

\* C4: with a breakpoint on F or C.F, a stepping command runs past no entry of an
\* activation of F, and on reaching one it answers with type breakpoint
C4_FunctionBreakpointStops ==
    RanStepping /\ {"F", "C.F"} \cap breakpoints # {} =>
        /\ \A k \in Passed : ~EntryOfF(k)
        /\ P1 \in Reached /\ EntryOfF(P1) => reply.type = "breakpoint"

\* the (unit, line) of instruction k
LineAt(k) ==
    LET code == TraceStep(k, logs[k + 1]).code
    IN  <<code.unitname, code.line_index>>

\* execution enters line 2 of T.sol at instruction k
LineEntered(k) ==
    /\ LineAt(k) = <<Some(UnitName), 1>>
    /\ k = 0 \/ LineAt(k - 1) # LineAt(k)

\* C5: with the breakpoint T.sol:2, a stepping command runs past no instruction at
\* which execution enters line 2 of T.sol, on reaching one it answers with type
\* breakpoint, and with no other breakpoint it answers so nowhere else
C5_LineBreakpointStops ==
    RanStepping /\ "T.sol:2" \in breakpoints =>
        /\ \A k \in Passed : ~LineEntered(k)
        /\ P1 \in Reached /\ LineEntered(P1) => reply.type = "breakpoint"
        /\ reply.type = "breakpoint" /\ breakpoints = {"T.sol:2"} => LineEntered(P1)

\* C6: a stepping command runs past no REVERT, and on reaching one it answers with
\* type revert
C6_RevertStops ==
    RanStepping =>
        /\ \A k \in Passed : logs[k + 1].op # "REVERT"
        /\ P1 \in Reached /\ logs[P1 + 1].op = "REVERT" => reply.type = "revert"

\* C11: every answer of type step to a `finish` is marked as a return and carries the
\* return values of the frame on top of the stack, or carries a warning
C11_FinishReturnsOrWarns ==
    Ran("finish") /\ reply.type = "step" =>
        \/ /\ reply.is_return
           /\ reply.return_values = (IF frames # <<>> THEN Last(frames).return_values ELSE <<>>)
        \/ "warning" \in DOMAIN reply

(***************************************************************************)
(* oi_debugger.py: the commands that inspect the frames and the values     *)
(***************************************************************************)
RECURSIVE Reverse(_)
Reverse(s) == IF s = <<>> THEN <<>> ELSE Append(Reverse(Tail(s)), s[1])

\* EvmDebugCore.get_frames: the frames, newest first
get_frames(d) == Reverse(d.frames)

\* dict.update, on dicts keyed by name held as the sets of their values
DictUpdate(a, b) == {v \in a : \A w \in b : w.name # v.name} \cup b

\* Value.to_obj
to_obj(v) ==
    [type |-> v.type, name |-> v.name, value |-> v.value, kind |-> v.kind,
     origin |-> v.origin, value_string |-> ToString(v.value)]

\* InteractiveDebuggerOI._get_values; None stands for IndexError
oi_get_values(d, iframe, istep) ==
    LET merged(f, s) == Some(DictUpdate(f.locals, s.values))
        looked(f) == IF IsNone(f) THEN None ELSE merged(Get(f), Get(get_step(d, istep)))
    IN  looked(PyIndex(get_frames(d), iframe))

\* InteractiveDebuggerOI.cmd_print
cmd_print(d, cf, varname) ==
    LET obj == [status |-> "ok", type |-> "print", frame_index |-> cf,
                variable_name |-> varname, frame_found |-> FALSE,
                variable_found |-> FALSE, variable |-> None]
        looked(variables) ==
            IF IsNone(variables) THEN obj
            ELSE IF \E v \in Get(variables) : v.name = varname
            THEN [obj EXCEPT !.frame_found = TRUE, !.variable_found = TRUE,
                             !.variable = Some(to_obj(CHOOSE v \in Get(variables) :
                                                          v.name = varname))]
            ELSE [obj EXCEPT !.frame_found = TRUE]
    IN  looked(oi_get_values(d, cf, 0))

\* InteractiveDebuggerOI.cmd_info_locals
cmd_info_locals(d, cf) ==
    LET obj == [status |-> "ok", type |-> "info_locals", frame_index |-> cf,
                frame_found |-> FALSE, variables |-> {}]
        looked(variables) ==
            IF IsNone(variables) THEN obj
            ELSE [obj EXCEPT !.frame_found = TRUE,
                             !.variables = {to_obj(v) : v \in Get(variables)}]
    IN  looked(oi_get_values(d, cf, 0))

\* the strings given to `frame`
FrameArgs == {"0", "1", "-1", "x"}

\* int(args[0]); None stands for ValueError
py_int(str) ==
    IF str = "0" THEN Some(0)
    ELSE IF str = "1" THEN Some(1)
    ELSE IF str = "-1" THEN Some(-1)
    ELSE None

\* InteractiveDebuggerOI.cmd_frame, as ObjectInterface._oui_handle_command answers it:
\* [current_frame, reply]
cmd_frame(d, cf, arg) ==
    LET obj(frame_index) ==
            [status |-> "ok", type |-> "frame", frame_index |-> frame_index,
             frame_found |-> FALSE, code |-> None]
        selected(frame_index, f) ==
            [current_frame |-> frame_index,
             reply |-> IF IsNone(f) THEN obj(frame_index)
                       ELSE IF IsNone(Get(f).cur) THEN Reply("error", "UnhandledException")
                       ELSE [obj(frame_index) EXCEPT
                                !.frame_found = TRUE,
                                !.code = Some(format_code(Get(Get(f).cur)))]]
        parsed(frame_index) ==
            IF IsNone(frame_index)
            THEN [current_frame |-> cf, reply |-> Reply("error", "UnhandledException")]
            ELSE selected(Get(frame_index), PyIndex(get_frames(d), Get(frame_index)))
    IN  parsed(py_int(arg))

\* InteractiveDebuggerOI.cmd_info_breakpoints
cmd_info_breakpoints(bps) ==
    [status |-> "ok", type |-> "info_breakpoints", breakpoints |-> bps]

\* ObjectInterface.call with a command that does not step, r being what the command
\* does: [current_frame, reply]
CallInspect(command, arg, r) ==
    /\ request' = Request(command, arg)
    /\ IF oui_quit
       THEN reply' = Reply("quit", "none") /\ UNCHANGED current_frame
       ELSE reply' = r.reply /\ current_frame' = r.current_frame
    /\ UNCHANGED <<logs, windowsize, window, window_offset, frames, iter, breakpoints,
                   oui_quit, evm, tally>>

FrameCmd(arg) == CallInspect("frame", Some(arg), cmd_frame(Dbg, current_frame, arg))

\* the names given to `print`
PrintNames == {"n", "", "zz"}

PrintCmd(name) ==
    CallInspect("print", Some(name),
                [current_frame |-> current_frame, reply |-> cmd_print(Dbg, current_frame, name)])

InfoLocals ==
    CallInspect("info_locals", None,
                [current_frame |-> current_frame, reply |-> cmd_info_locals(Dbg, current_frame)])

InfoBreakpoints ==
    CallInspect("info_breakpoints", None,
                [current_frame |-> current_frame, reply |-> cmd_info_breakpoints(breakpoints)])

\* the names InteractiveDebuggerOI.__init__ registers commands under
Commands ==
    {"print", "info_locals", "info_args", "info_breakpoints", "break", "delete", "frame",
     "continue", "step", "stepi", "next", "finish", "backtrace", "list", "quit"}

\* a request: the fields may be missing (None), the command may be no string
Obj(command, args) == [command |-> command, args |-> args]
Str(name) == [is_str |-> TRUE, name |-> name]
NotStr == [is_str |-> FALSE, name |-> ""]

\* the first half of ObjectInterface._oui_handle_command: the name of the exception
\* it hands to _oui_handle_error, or "none" when it calls the command's handler
oui_dispatch(obj) ==
    IF IsNone(obj.command) \/ IsNone(obj.args) THEN "_syntax"
    ELSE IF ~Get(obj.command).is_str THEN "_syntax"
    ELSE IF Get(obj.command).name \notin Commands THEN "_command"
    ELSE "none"

\* requests without a command, without args, with a command that is no string, and
\* with a command that is not registered
BadRequests ==
    { Obj(None, Some(<<>>)), Obj(Some(Str("list")), None), Obj(Some(NotStr), Some(<<>>)),
      Obj(Some(Str("run")), Some(<<>>)) }

\* ObjectInterface.call with a request that reaches no command handler
BadRequest(obj) ==
    /\ oui_dispatch(obj) # "none"
    /\ CallInspect(oui_dispatch(obj), None,
                   [current_frame |-> current_frame,
                    reply |-> oui_handle_error(Raise(Dbg, oui_dispatch(obj), <<obj>>)).reply])

(***************************************************************************)
(* The session again, with the commands that inspect: the traces are the   *)
(* sequences of at most InspectLen of the steps in InspectSteps that       *)
(* follow the control flow (F called from pc 1 with n = 7 or n = 5, G      *)
(* called with 6 for its unnamed parameter, a[0] assigned).                *)
(***************************************************************************)
InspectLen == 4

InspectSteps ==
    { Raw("JUMP", 1, <<2>>, 0, 2, 0, "i"),
      Raw("JUMPDEST", 4, <<2, 7>>, 5, 4, 0, "-"),
      Raw("JUMPDEST", 4, <<2, 5>>, 5, 4, 0, "-"),
      Raw("JUMPDEST", 8, <<2, 6>>, 0, 4, 0, "-"),
      Raw("SWAP1", 5, <<7>>, 6, 2, 0, "-") }

\* the call lands on the entry of F or G; nothing else comes before a jump destination
InspectFollows(a, b) == (a.op = "JUMP") = (b.op = "JUMPDEST")

InspectTraces ==
    {t \in SeqsUpTo(InspectSteps, InspectLen) :
        /\ t # <<>> => t[1].op # "JUMPDEST"
        /\ \A k \in 1..(Len(t) - 1) : InspectFollows(t[k], t[k + 1])}

\* the breakpoint names given in these sessions
InspectBreakpoints == {"F", "T.sol:2"}

InitInspect ==
    /\ logs \in InspectTraces
    /\ windowsize = SessionWindow
    /\ \E c \in {EvmDebugCore_init(logs, SessionWindow)} :
           /\ ~c.raised
           /\ window = c.d.window
           /\ window_offset = c.d.window_offset
           /\ frames = c.d.frames
           /\ iter = c.d.iter
    /\ breakpoints = {}
    /\ current_frame = 0
    /\ oui_quit = FALSE
    /\ reply = Reply("none", "none")
    /\ request = NoRequest
    /\ evm = NoEvm
    /\ tally = NoTally

NextInspect ==
    \/ Stepi
    \/ \E name \in InspectBreakpoints : Break(name)
    \/ \E name \in InspectBreakpoints : Delete(name)
    \/ InfoBreakpoints
    \/ \E arg \in FrameArgs : FrameCmd(arg)
    \/ \E name \in PrintNames : PrintCmd(name)
    \/ InfoLocals
    \/ \E obj \in BadRequests : BadRequest(obj)

SpecInspect == InitInspect /\ [][NextInspect]_vars

\* the frame that index i of the frame stack names, 0 being the newest: a sequence of
\* at most one frame
FrameNamed(i) ==
    IF i \in 0..(Len(frames) - 1) THEN <<frames[Len(frames) - i]>> ELSE <<>>

\* the values of the frame f merged with the temporaries of the current step, the
\* temporaries first
ValuesOf(f) ==
    Get(get_step(Dbg, 0)).values
        \cup {v \in f.locals : \A t \in Get(get_step(Dbg, 0)).values : t.name # v.name}

\* C12: `print NAME` and `info locals` answer from the frame that the selected index
\* names, 0 being the newest, merged with the temporaries of the current step, which
\* win on a name clash; when the index names no frame they answer frame not found
C12_PrintFromSelectedFrame ==
    /\ Ran("print") =>
           IF FrameNamed(current_frame) = <<>> THEN ~reply.frame_found
           ELSE /\ reply.frame_found
                /\ reply.variable_found
                       = (\E v \in ValuesOf(FrameNamed(current_frame)[1]) :
                              v.name = Get(request.arg))
                /\ reply.variable_found =>
                       \E v \in ValuesOf(FrameNamed(current_frame)[1]) :
                           /\ v.name = Get(request.arg)
                           /\ Get(reply.variable).value = v.value
    /\ Ran("info_locals") =>
           IF FrameNamed(current_frame) = <<>> THEN ~reply.frame_found
           ELSE /\ reply.frame_found
                /\ {[name |-> v.name, value |-> v.value] : v \in reply.variables}
                       = {[name |-> v.name, value |-> v.value] :
                              v \in ValuesOf(FrameNamed(current_frame)[1])}

(***************************************************************************)
(* EvmDebugCore on its own: EvmDebugCore(client, txhash, windowsize) built *)
(* over a trace, then step() called again and again, also past the end of  *)
(* the trace.  The traces are the sequences of at most CoreLen of the      *)
(* steps in CoreSteps that follow the control flow: internal calls of F    *)
(* (with either of two arguments) and returns, assignments (the one to x   *)
(* with either of two values on the stack), a conditional jump, an external CALL or DELEGATECALL whose       *)
(* callee starts at pc 0, and STOP or RETURN, after which the caller may   *)
(* go on.                                                                  *)
(***************************************************************************)
CoreLen == 5
MaxCoreWindow == 2
CoreExtra == 2

CoreWindows == 1..MaxCoreWindow

CoreSteps ==
    { Raw("JUMP", 1, <<2>>, 0, 2, 0, "i"),
      Raw("JUMPDEST", 4, <<2, 7>>, 5, 4, 0, "-"),
      Raw("JUMPDEST", 4, <<2, 8>>, 5, 4, 0, "-"),
      Raw("JUMP", 6, <<2, 7, 2>>, 5, 4, 0, "o"),
      Raw("JUMPDEST", 2, <<7>>, 2, 2, 0, "-"),
      Raw("SWAP1", 7, <<3>>, 10, 3, 0, "-"),
      Raw("SWAP1", 7, <<4>>, 10, 3, 0, "-"),
      Raw("SWAP1", 5, <<9>>, 6, 2, 0, "-"),
      Raw("JUMPI", 8, <<>>, 5, 1, 0, "-"),
      Raw("CALL", 11, <<>>, 0, 2, 0, "-"),
      Raw("DELEGATECALL", 13, <<>>, 0, 2, 0, "-"),
      Raw("PUSH1", 0, <<>>, 0, 0, -1, "-"),
      Raw("STOP", 10, <<>>, 0, 0, -1, "-"),
      Raw("RETURN", 12, <<>>, 0, 0, -1, "-") }

\* a jump lands on a jump destination (the call on F's entry, the return on the return
\* address), a conditional jump lands on either or falls through, a CALL or
\* DELEGATECALL is followed by the callee's first instruction at pc 0, and nothing else
\* comes before a jump destination or before pc 0
CoreFollows(a, b) ==
    IF a.op = "JUMP" THEN b.op = "JUMPDEST" /\ (a.ju = "i") = (b.pc = 4)
    ELSE IF a.op = "JUMPI" /\ b.op = "JUMPDEST" THEN TRUE
    ELSE IF a.op \in {"CALL", "DELEGATECALL"} THEN b.pc = 0
    ELSE b.op # "JUMPDEST" /\ b.pc # 0

CoreTraces ==
    {t \in SeqsUpTo(CoreSteps, CoreLen) :
        /\ t # <<>> => t[1].op # "JUMPDEST"
        /\ \A k \in 1..(Len(t) - 1) : CoreFollows(t[k], t[k + 1])}

\* the constructor; when it raises there is no debugger to call
InitCore ==
    /\ logs \in CoreTraces
    /\ windowsize \in CoreWindows
    /\ \E c \in {EvmDebugCore_init(logs, windowsize)} :
           /\ window = c.d.window
           /\ window_offset = c.d.window_offset
           /\ frames = c.d.frames
           /\ iter = c.d.iter
           /\ reply = Reply(IF c.raised THEN "raised" ELSE "ok", "__init__")
           /\ tally = [calls |-> 0, raised |-> c.raised, pushes |-> 0, pops |-> 0]
    /\ breakpoints = {}
    /\ current_frame = 0
    /\ oui_quit = FALSE
    /\ request = NoRequest
    /\ evm = NoEvm

\* one call of EvmDebugCore.step()
CoreStep ==
    /\ reply.type = "__init__" => reply.status = "ok"
    /\ tally.calls < Len(logs) + CoreExtra
    /\ request' = Request("step()", None)
    /\ \E r \in {step(logs, Dbg)} :
           /\ SetDbg(r.d)
           /\ reply' = Reply(IF r.raised THEN "raised" ELSE "ok", "step()")
           /\ \E e \in {IF r.raised THEN "none"
                        ELSE Get(get_window_rel(r.d, 0)).event.event} :
                  tally' = [calls |-> tally.calls + 1,
                            raised |-> tally.raised \/ r.raised,
                            pushes |-> tally.pushes + (IF e = "push" THEN 1 ELSE 0),
                            pops |-> tally.pops + (IF e = "pop" THEN 1 ELSE 0)]
    /\ UNCHANGED <<logs, windowsize, breakpoints, current_frame, oui_quit, evm>>

NextCore == CoreStep

SpecCore == InitCore /\ [][NextCore]_vars

\* C13: a step() that returns leaves every frame below the top of the new frame stack
\* as it was and every other slot of the window as it was (moved by one); what it files
\* into the current step is of kind temporary, into the top frame's locals of kind
\* variable and into its return values of kind return
C13_FilesIntoTopFrame ==
    [][reply'.status = "ok" =>
          /\ \A k \in 1..(Len(frames') - 1) : k <= Len(frames) /\ frames'[k] = frames[k]
          /\ \A k \in 1..(Len(window) - 1) : k # windowsize + 1 => window'[k] = window[k + 1]
          /\ \A v \in window'[windowsize + 1].values : v.kind = "temporary"
          /\ frames' # <<>> =>
                /\ \A v \in Last(frames').locals : v.kind = "variable"
                /\ \A k \in 1..Len(Last(frames').return_values) :
                       Last(frames').return_values[k].kind = "return"]_vars

\* C13: a step() has filed x into the frame of F while the frame below, the caller's,
\* holds an x of its own
C13_Witness ==
    /\ request.command = "step()"
    /\ reply.status = "ok"
    /\ Len(frames) >= 2
    /\ P1 < Len(logs)
    /\ logs[P1 + 1].op = "SWAP1"
    /\ \E v \in Last(frames).locals : v.name = "x"
    /\ \E v \in frames[Len(frames) - 1].locals : v.name = "x"

\* C14: `break` adds its name to the breakpoint set (nothing changes when it is there),
\* `delete` removes its name and reports whether it was there, `info breakpoints`
\* lists exactly the set, and no other command changes the set
C14_BreakpointSet ==
    [][IF reply'.status # "ok" THEN breakpoints' = breakpoints
       ELSE IF request'.command = "break"
       THEN breakpoints' = breakpoints \cup {Get(request'.arg)}
       ELSE IF request'.command = "delete"
       THEN /\ breakpoints' = breakpoints \ {Get(request'.arg)}
            /\ reply'.breakpoint_found = (Get(request'.arg) \in breakpoints)
       ELSE IF request'.command = "info_breakpoints"
       THEN reply'.breakpoints = breakpoints /\ breakpoints' = breakpoints
       ELSE breakpoints' = breakpoints]_vars

\* C14: a `delete` has removed a name that was there and has left another one
C14_Witness ==
    /\ Ran("delete")
    /\ reply.breakpoint_found
    /\ Get(request.arg) \notin breakpoints
    /\ breakpoints # {}

\* the request being answered is one of C15's: no command or args field, a command
\* that is no string or is not registered, `frame` with an argument that is no integer
\* or is the index of no frame (0 being the newest), `print` of a name the selected
\* frame and the current step do not hold, `delete` of a name that is not a breakpoint
FailingRequest ==
    \/ request'.command \in {"_syntax", "_command"}
    \/ /\ request'.command = "frame"
       /\ \/ IsNone(py_int(Get(request'.arg)))
          \/ Get(py_int(Get(request'.arg))) \notin 0..(Len(frames) - 1)
    \/ /\ request'.command = "print"
       /\ \/ FrameNamed(current_frame) = <<>>
          \/ \A v \in ValuesOf(FrameNamed(current_frame)[1]) : v.name # Get(request'.arg)
    \/ /\ request'.command = "delete"
       /\ Get(request'.arg) \notin breakpoints

\* the answer is a response with status error, or with status ok and its found flag false
FailureAnswered ==
    \/ reply'.status = "error"
    \/ /\ reply'.status = "ok"
       /\ request'.command = "frame" => ~reply'.frame_found
       /\ request'.command = "print" => ~reply'.variable_found
       /\ request'.command = "delete" => ~reply'.breakpoint_found

\* C15: while the session has not ended every request is dispatched (none is answered
\* with status quit), and a failing request is answered with an error or a found flag
\* that is false and does not end the session
C15_FailuresNotFatal ==
    [][~oui_quit =>
          /\ reply'.status # "quit"
          /\ FailingRequest => FailureAnswered /\ ~oui_quit']_vars

\* C16: neither the construction of EvmDebugCore nor any step() raises, whatever pushes
\* and pops the trace holds, so that stepping reaches the end of the trace
C16_UnbalancedPopTolerated == reply.status # "raised"

(***************************************************************************)
(* evm_trace.py: AddressToContract, FrameDecoder and the part of           *)
(* trace_iter's loop that chooses the decoder of each call depth.  Byte    *)
(* strings are sequences of byte values, an address is a string, a stack   *)
(* word that holds an address is the pair of its 12 high bytes and its 20  *)
(* low bytes, and a compressed source map is the sequence of its           *)
(* ';'-separated entries, each the sequence of its ':'-separated fields    *)
(* with None for an empty field.                                           *)
(***************************************************************************)
\* AddressToContract.initialize's contracts_bin: the creation bytecode of the one
\* compiled contract
ContractsBin ==
    <<[unitname |-> UnitName, contractname |-> ContractName, bytecode |-> <<1, 2>>]>>

\* the contract creations AddressToContract.initialize finds on the chain, oldest
\* first: "a" was created from the compiled contract, "b" from other bytecode
Deployments ==
    <<[address |-> "a", input |-> <<1, 2, 9>>], [address |-> "b", input |-> <<3>>]>>

\* the addresses a transaction or a CALL may name; nothing was ever created at "d"
Addresses == {"a", "b", "d"}

\* bytes.startswith
startswith(s, prefix) ==
    Len(prefix) <= Len(s) /\ SubSeq(s, 1, Len(prefix)) = prefix

\* the loop taking the first candidate the input starts with, whatever its length
search_first_match(contract_bin, contract_bytecode, k, match_length, match_id) ==
    LET matching == {j \in k..Len(contract_bin) :
                        /\ Len(contract_bin[j].bytecode) > 0
                        /\ startswith(contract_bytecode, contract_bin[j].bytecode)}
        first == CHOOSE j \in matching : \A i \in matching : j <= i
    IN  IF matching = {} THEN match_id
        ELSE Some([unitname |-> contract_bin[first].unitname,
                   contractname |-> contract_bin[first].contractname])

\* the loop of AddressToContract._search_contract from candidate k on
RECURSIVE search_from(_, _, _, _, _)
search_from(contract_bin, contract_bytecode, k, match_length, match_id) ==
    IF k > Len(contract_bin) THEN match_id
    ELSE IF /\ Len(contract_bin[k].bytecode) > match_length
            /\ startswith(contract_bytecode, contract_bin[k].bytecode)
         THEN search_from(contract_bin, contract_bytecode, k + 1,
                          Len(contract_bin[k].bytecode),
                          Some([unitname |-> contract_bin[k].unitname,
                                contractname |-> contract_bin[k].contractname]))
         ELSE search_from(contract_bin, contract_bytecode, k + 1, match_length, match_id)

\* AddressToContract._search_contract: the id of the longest candidate the creation
\* input starts with, None when there is none
search_contract(contract_bin, contract_bytecode) ==
    search_from(contract_bin, contract_bytecode, 1, 0, None)

\* AddressToContract._address_to_contract_id after initialize: a later creation at an
\* address replaces an earlier one
address_to_contract_id ==
    LET n == Len(Deployments)
        latest(a) == CHOOSE k \in 1..n :
                        /\ Deployments[k].address = a
                        /\ \A j \in (k + 1)..n : Deployments[j].address # a
    IN  [a \in {Deployments[k].address : k \in 1..n} |->
            search_contract(ContractsBin, Deployments[latest(a)].input)]

\* AddressToContract.get_contract_id: [exc, id]
get_contract_id(address) ==
    IF address \in DOMAIN address_to_contract_id
    THEN [exc |-> "none", id |-> address_to_contract_id[address]]
    ELSE [exc |-> "KeyError", id |-> None]

\* the compiled contract's bin-runtime: PUSH1 0, JUMPDEST, CALL, STOP, INVALID
BinRuntime == <<96, 0, 91, 241, 0, 254>>

\* the compiled contract's srcmap-runtime, "5:4:0:-;;6:2;": one entry for each
\* instruction but the last
SrcmapRuntime ==
    << <<Some(5), Some(4), Some(0), Some("-")>>, <<None>>, <<Some(6), Some(2)>>, <<None>> >>

\* the loop decoding every byte as an opcode of its own, push payloads too
map_every_byte(bytecode, instr_address, k) ==
    [j \in 1..(Len(bytecode) - instr_address) |-> k + j - 1]

\* the loop of FrameDecoder._map_address_to_instruction_number from instr_address on
\* (addresses count from 0, sequences from 1)
RECURSIVE map_from(_, _, _)
map_from(bytecode, instr_address, k) ==
    IF instr_address >= Len(bytecode) THEN <<>>
    ELSE LET instr == bytecode[instr_address + 1]
             instr_length == IF instr >= 96 /\ instr <= 127 THEN 1 + (instr - 95) ELSE 1
         IN  [j \in 1..instr_length |-> k]
                 \o map_from(bytecode, instr_address + instr_length, k + 1)

\* FrameDecoder._map_address_to_instruction_number
map_address_to_instruction_number(bytecode) == map_from(bytecode, 0, 0)

\* FrameDecoderDummy.get_mapping's tuple, and _decode_source_map's first `last`
NoMapping == [st |-> 0, le |-> 0, fi |-> 0, ju |-> "-"]

\* the loop decoding each entry by itself: an empty field is 0 or '-', whatever the
\* entry before it held
decode_each_alone(srcmap, k, last) ==
    [n \in 1..(Len(srcmap) - k + 1) |->
        LET mv == srcmap[n + k - 1]
            given(j) == Len(mv) >= j /\ ~IsNone(mv[j])
        IN  [st |-> IF given(1) THEN Get(mv[1]) ELSE 0,
             le |-> IF given(2) THEN Get(mv[2]) ELSE 0,
             fi |-> IF given(3) THEN Get(mv[3]) ELSE 0,
             ju |-> IF given(4) THEN Get(mv[4]) ELSE "-"]]

\* the loop of FrameDecoder._decode_source_map from entry k on
RECURSIVE decode_from(_, _, _)
decode_from(srcmap, k, last) ==
    IF k > Len(srcmap) THEN <<>>
    ELSE LET mv == srcmap[k]
             given(j) == Len(mv) >= j /\ ~IsNone(mv[j])
             out(l) == <<l>> \o decode_from(srcmap, k + 1, l)
         IN  out([st |-> IF given(1) THEN Get(mv[1]) ELSE last.st,
                  le |-> IF given(2) THEN Get(mv[2]) ELSE last.le,
                  fi |-> IF given(3) THEN Get(mv[3]) ELSE last.fi,
                  ju |-> IF given(4) THEN Get(mv[4]) ELSE last.ju])

\* FrameDecoder._decode_source_map
decode_source_map(srcmap) == decode_from(srcmap, 1, NoMapping)

\* str.split(sep) from character k on, `current` being the piece collected so far
RECURSIVE split_from(_, _, _, _)
split_from(chars, sep, k, current) ==
    IF k > Len(chars) THEN <<current>>
    ELSE IF chars[k] = sep THEN <<current>> \o split_from(chars, sep, k + 1, <<>>)
    ELSE split_from(chars, sep, k + 1, Append(current, chars[k]))

\* str.split(sep) of a string given as the sequence of its characters
split(chars, sep) == split_from(chars, sep, 1, <<>>)

DigitChars == <<"0", "1", "2", "3", "4", "5", "6", "7", "8", "9">>

\* the value of a sequence of decimal digits after `acc`, None when one is no digit
RECURSIVE digits_from(_, _)
digits_from(chars, acc) ==
    IF chars = <<>> THEN Some(acc)
    ELSE IF \A v \in 1..Len(DigitChars) : DigitChars[v] # chars[1] THEN None
    ELSE digits_from(Tail(chars),
                     10 * acc + (CHOOSE v \in 0..9 : DigitChars[v + 1] = chars[1]))

\* int(s) of a string of digits with an optional sign; None stands for ValueError
int_of(chars) ==
    LET signed(sign, digits, v) ==
            IF digits = <<>> \/ IsNone(v) THEN None ELSE Some(sign * Get(v))
    IN  IF chars # <<>> /\ chars[1] = "-"
        THEN signed(-1, Tail(chars), digits_from(Tail(chars), 0))
        ELSE IF chars # <<>> /\ chars[1] = "+"
        THEN signed(1, Tail(chars), digits_from(Tail(chars), 0))
        ELSE signed(1, chars, digits_from(chars, 0))

\* the string of a sequence of characters
RECURSIVE join(_)
join(chars) == IF chars = <<>> THEN "" ELSE chars[1] \o join(Tail(chars))

\* the records and fields _decode_source_map reads from the string srcmap:
\* srcmap.split(";"), each m.split(":"), int(mv[j]) of the first three fields when they
\* are not empty, mv[3] as it is
fields_of(srcmap) ==
    LET field(mv, j) ==
            IF mv[j] = <<>> THEN None
            ELSE IF j <= 3 THEN int_of(mv[j])
            ELSE Some(join(mv[j]))
        record(mv) == [j \in 1..Len(mv) |-> field(mv, j)]
        records(ms) == [k \in 1..Len(ms) |-> record(split(ms[k], ":"))]
    IN  records(split(srcmap, ";"))

\* one of the int(mv[j]) raises ValueError
bad_number(srcmap) ==
    LET bad(mv) == \E j \in 1..Len(mv) : j <= 3 /\ mv[j] # <<>> /\ IsNone(int_of(mv[j]))
        any(ms) == \E k \in 1..Len(ms) : bad(split(ms[k], ":"))
    IN  any(split(srcmap, ";"))

\* FrameDecoder._decode_source_map of a string: [raised, out]
decode_source_map_string(srcmap) ==
    IF bad_number(srcmap) THEN [raised |-> TRUE, out |-> <<>>]
    ELSE [raised |-> FALSE, out |-> decode_source_map(fields_of(srcmap))]

\* FrameDecoder.get_mapping, of the decoder of the compiled contract: [exc, mapping]
FrameDecoder_get_mapping(address) ==
    LET numbers == map_address_to_instruction_number(BinRuntime)
        sources == decode_source_map(SrcmapRuntime)
    IN  IF address >= Len(numbers) THEN [exc |-> "IndexError", mapping |-> NoMapping]
        ELSE IF numbers[address + 1] >= Len(sources)
             THEN [exc |-> "IndexError", mapping |-> NoMapping]
        ELSE [exc |-> "none", mapping |-> sources[numbers[address + 1] + 1]]

\* IFrameDecoder.get_mapping of either decoder
get_mapping(decoder, address) ==
    IF decoder = "FrameDecoderDummy" THEN [exc |-> "none", mapping |-> NoMapping]
    ELSE FrameDecoder_get_mapping(address)

Word(hi, lo) == [hi |-> hi, lo |-> lo]

\* "0x" + word[24:]
AddressOf(word) == word.lo

\* trace_iter before its first next(), with the locals the loop keeps: call_id is the
\* pair (call_unitname, call_contractname), None while the names are unbound
DecodeInit ==
    [i |-> 0, prev_depth |-> -1, tracestack |-> <<>>, call_id |-> None,
     callstack |-> CallStackInit, done |-> FALSE]

TraceStackItem(id, decoder) ==
    [unitname |-> id.unitname, contractname |-> id.contractname, decoder |-> decoder]

\* trace_iter stacking a decoder of the compiled contract at every log entry
stack_decoder(ls, to, it, depth) ==
    [exc |-> "none",
     tracestack |-> Append(it.tracestack, TraceStackItem(ContractsBin[1], "FrameDecoder")),
     call_id |-> it.call_id]

\* trace_iter's `if depth == prev_depth + 1: ... elif depth == prev_depth - 1: ...` for
\* the log at index it.i: [exc, tracestack, call_id]
select_decoder(ls, to, it, depth) ==
    LET out(exc, tracestack, call_id) ==
            [exc |-> exc, tracestack |-> tracestack, call_id |-> call_id]
        resolved(r) ==
            IF r.exc = "KeyError"
            THEN IF IsNone(it.call_id) THEN out("UnboundLocalError", it.tracestack, it.call_id)
                 ELSE out("none",
                          Append(it.tracestack,
                                 TraceStackItem(Get(it.call_id), "FrameDecoderDummy")),
                          it.call_id)
            ELSE IF IsNone(r.id) THEN out("TypeError", it.tracestack, it.call_id)
            ELSE out("none",
                     Append(it.tracestack, TraceStackItem(Get(r.id), "FrameDecoder")),
                     r.id)
        called(word) ==
            IF IsNone(word) THEN out("IndexError", it.tracestack, it.call_id)
            ELSE resolved(get_contract_id(AddressOf(Get(word))))
    IN  IF depth = it.prev_depth + 1
        THEN IF it.i = 0 THEN resolved(get_contract_id(to))
             ELSE called(PyIndex(ls[it.i].stack, -2))
        ELSE IF depth = it.prev_depth - 1
        THEN IF it.tracestack = <<>> THEN out("IndexError", it.tracestack, it.call_id)
             ELSE out("none", DelLast(it.tracestack), it.call_id)
        ELSE out("none", it.tracestack, it.call_id)

\* trace_iter's TraceStep(index=i, depth=depth, contractname=frame.contractname, ...)
DecodedStep(i, log, frame, m) ==
    [index |-> i, depth |-> log.depth, contractname |-> frame.contractname,
     pc |-> log.pc, op |-> log.op, stack |-> log.stack,
     start |-> m.st, length |-> m.le, fileno |-> m.fi, jumptype |-> m.ju,
     code |-> get_source(frame.unitname, m.st, m.le, m.fi)]

\* next() on the generator trace_iter(txhash) of the transaction sent to `to`, over
\* the structLogs `ls`: [kind, exc, it, step, event], `it` holding the generator's
\* locals as the yield or the exception leaves them
decode_next(ls, to, it) ==
    LET out(kind, exc, it2, ts, event) ==
            [kind |-> kind, exc |-> exc, it |-> it2, step |-> ts, event |-> event]
        raise(exc, it2) == out("raise", exc, [it2 EXCEPT !.done = TRUE], None, NoEvent)
        added(it2, ts, r) ==
            IF r.raised THEN raise("IndexError", it2)
            ELSE out("yield", "none", [it2 EXCEPT !.i = @ + 1, !.callstack = r.cs],
                     Some(ts), r.event)
        built(it2, ts) == added(it2, ts, CallStack_add(it.callstack, ts))
        mapped(it2, log, frame, m) ==
            IF m.exc # "none" THEN raise(m.exc, it2)
            ELSE built(it2, DecodedStep(it.i, log, frame, m.mapping))
        framed(it2, log) ==
            IF it2.tracestack = <<>> THEN raise("IndexError", it2)
            ELSE mapped(it2, log, Last(it2.tracestack),
                        get_mapping(Last(it2.tracestack).decoder, log.pc))
        selected(log, s) ==
            IF s.exc # "none" THEN raise(s.exc, it)
            ELSE framed([it EXCEPT !.tracestack = s.tracestack, !.call_id = s.call_id,
                                   !.prev_depth = log.depth],
                        log)
        entry(log) == selected(log, select_decoder(ls, to, it, log.depth))
    IN  IF it.done \/ it.i >= Len(ls)
        THEN out("stop", "none", [it EXCEPT !.done = TRUE], None, NoEvent)
        ELSE entry(ls[it.i + 1])

(***************************************************************************)
(* A consumer of trace_iter that calls next() until the generator stops or *)
(* raises.  The transaction is sent to any address; the code executes the  *)
(* compiled contract's instructions, an instruction at a pc past its       *)
(* bytecode (a trace of other bytecode), and CALLs to any address; a CALL  *)
(* enters the callee at pc 0 one level deeper and a STOP leaves a callee.  *)
(***************************************************************************)
DecodeLen == 4
DecodeDepths == {0, 1}

RawLog(depth, op, pc, stack) == [depth |-> depth, op |-> op, pc |-> pc, stack |-> stack]

DecodeSteps ==
    UNION {
        { RawLog(dp, "PUSH1", 0, <<>>), RawLog(dp, "JUMPDEST", 2, <<0>>),
          RawLog(dp, "STOP", 4, <<>>), RawLog(dp, "INVALID", 5, <<>>),
          RawLog(dp, "SWAP1", 7, <<0, 0>>) }
        \cup { RawLog(dp, "CALL", 3, <<Word(0, a), Word(0, "")>>) : a \in Addresses }
        : dp \in DecodeDepths }

DecodeFollows(a, b) ==
    IF a.op = "CALL" THEN b.depth = a.depth + 1 /\ b.pc = 0
    ELSE IF a.op = "STOP" THEN b.depth = a.depth - 1
    ELSE b.depth = a.depth

DecodeTraces ==
    {t \in SeqsUpTo(DecodeSteps, DecodeLen) :
        /\ t # <<>> => t[1].depth = 0
        /\ \A k \in 1..(Len(t) - 1) : DecodeFollows(t[k], t[k + 1])}

InitDecode ==
    /\ logs \in DecodeTraces
    /\ evm \in [to : Addresses]
    /\ iter = DecodeInit
    /\ windowsize = 0
    /\ window = <<>>
    /\ window_offset = 0
    /\ frames = <<>>
    /\ breakpoints = {}
    /\ current_frame = 0
    /\ oui_quit = FALSE
    /\ request = NoRequest
    /\ reply = [status |-> "none", type |-> "none", exc |-> "none", step |-> None]
    /\ tally = NoTally

\* one next() on the generator, which is finished once it has stopped or raised
DecodeNext ==
    /\ ~iter.done
    /\ request' = [command |-> "next()", arg |-> None, position |-> iter.i,
                   depth |-> Len(iter.tracestack)]
    /\ \E r \in {decode_next(logs, evm.to, iter)} :
           /\ iter' = r.it
           /\ reply' = [status |-> r.kind, type |-> "next()", exc |-> r.exc, step |-> r.step]
    /\ UNCHANGED <<logs, windowsize, window, window_offset, frames, breakpoints,
                   current_frame, oui_quit, evm, tally>>

NextDecode == DecodeNext

SpecDecode == InitDecode /\ [][NextDecode]_vars

\* the step the last next() yielded has the unknown-source mapping (0, 0, 0, '-')
YieldedUnmapped ==
    /\ reply.status = "yield"
    /\ Get(reply.step).start = 0 /\ Get(reply.step).length = 0
    /\ Get(reply.step).fileno = 0 /\ Get(reply.step).jumptype = "-"

\* the log entry the last next() worked on
Decoded == logs[request.position + 1]

\* the pc has no entry in the compiled contract's address-to-instruction table, or its
\* instruction number has no record in the decompressed source map
Unmapped(pc) ==
    \/ pc >= Len(map_address_to_instruction_number(BinRuntime))
    \/ map_address_to_instruction_number(BinRuntime)[pc + 1]
           >= Len(decode_source_map(SrcmapRuntime))

\* C17: when next() reaches a log entry executed by the compiled contract whose pc has
\* no table entry or whose instruction has no source-map record, it raises nothing and
\* yields the step with the mapping (0, 0, 0, '-')
C17_UnmappedPcIsSentinel ==
    /\ request.command = "next()" /\ request.position < Len(logs)
    /\ reply.exc \notin {"UnboundLocalError", "TypeError"}
    /\ iter.tracestack # <<>>
    /\ Last(iter.tracestack).decoder = "FrameDecoder"
    /\ Unmapped(Decoded.pc)
    => YieldedUnmapped

\* the address whose code executes log entry k (counting from 1) of a transaction sent
\* to `to`: the callee of the CALL before it one level up, else the address of the
\* entry before it at the same depth
RECURSIVE ExecAddress(_, _, _)
ExecAddress(ls, to, k) ==
    IF k = 1 THEN to
    ELSE IF ls[k].depth = ls[k - 1].depth + 1 THEN AddressOf(ls[k - 1].stack[Len(ls[k - 1].stack) - 1])
    ELSE LET j == CHOOSE j \in 1..(k - 1) :
                      /\ ls[j].depth = ls[k].depth
                      /\ \A m \in (j + 1)..(k - 1) : ls[m].depth # ls[k].depth
         IN  ExecAddress(ls, to, j)

\* the address resolves to no compiled contract: the deployment scan never recorded
\* it, or recorded that its creation input matched no candidate
Unresolved(address) ==
    \/ address \notin DOMAIN address_to_contract_id
    \/ IsNone(address_to_contract_id[address])

\* C18: when next() reaches a log entry executed at an address that resolves to no
\* compiled contract, it raises nothing and yields the step with the mapping
\* (0, 0, 0, '-') and a SourceMapping without unit name
C18_UnknownContractPassThrough ==
    /\ request.command = "next()" /\ request.position < Len(logs)
    /\ Unresolved(ExecAddress(logs, evm.to, request.position + 1))
    => YieldedUnmapped /\ IsNone(Get(reply.step).code.unitname)

\* the valid slots of the window, oldest first
Buffered == {k \in 1..Len(window) : valid(window[k])}

\* the step in a valid slot, and the log entry with its index
StepIn(k) == Get(window[k].step)

\* what trace_iter has yielded, as far as the window still holds it: each step carries
\* the op, pc and stack of the log entry with its index, the indexes of neighbouring
\* slots differ by one, and the step yielded last has the index of the last log entry
\* consumed, the entries being consumed from index 0 on, one for each yield
YieldedInLogOrder ==
    /\ \A k \in Buffered :
          /\ StepIn(k).index \in 0..(Len(logs) - 1)
          /\ StepIn(k).op = logs[StepIn(k).index + 1].op
          /\ StepIn(k).pc = logs[StepIn(k).index + 1].pc
          /\ StepIn(k).stack = logs[StepIn(k).index + 1].stack
          /\ k + 1 \in Buffered => StepIn(k + 1).index = StepIn(k).index + 1
          /\ k + 1 \notin Buffered => StepIn(k).index = iter.i - 1
    /\ ~tally.raised /\ iter.done => iter.i = Len(logs)

\* a step() that goes from current step a to current step b, nothing having raised so
\* far, makes the step after a current, or none when a is the last step of the trace
StepsToNext(a, b) ==
    valid(a) =>
        IF Get(a.step).index + 1 < Len(logs)
        THEN valid(b) /\ Get(b.step).index = Get(a.step).index + 1
        ELSE ~valid(b)

\* no operation goes back: the index of the current step does not decrease, and an
\* exhausted trace stays exhausted
NeverBackwards(a, b) ==
    /\ valid(a) /\ valid(b) => Get(b.step).index >= Get(a.step).index
    /\ tally.calls > 0 /\ ~valid(a) => ~valid(b)

\* C19: trace_iter yields one pair for each log entry, in log order and numbered from
\* 0; each step() that returns makes the step with the next index current until the
\* trace is exhausted, and no step() moves the current step backwards
C19_StepsInIncreasingOrder ==
    /\ []YieldedInLogOrder
    /\ [][/\ ~tally'.raised => StepsToNext(Get(get_step(Dbg, 0)), Get(get_step(Dbg, 0))')
          /\ NeverBackwards(Get(get_step(Dbg, 0)), Get(get_step(Dbg, 0))')]_vars

\* C19: the trace has been stepped through from its first to its last step, and one
\* more step() has found it exhausted
C19_Witness ==
    /\ ~tally.raised
    /\ Len(logs) = CoreLen
    /\ tally.calls = Len(logs)
    /\ iter.done /\ iter.i = Len(logs)
    /\ ~valid(Get(get_step(Dbg, 0)))
    /\ valid(Get(get_step(Dbg, -1)))
    /\ Get(Get(get_step(Dbg, -1)).step).index = Len(logs) - 1

\* the caller's count of step() calls, while neither the constructor nor a step() raised
StepsDone == tally.calls

\* C20: after construction and n step() calls the window holds 2W+1 slots, and for
\* each offset k from -W to W get_step(k) is the step of log entry n+k when there is
\* one and the invalid step, not None, when there is none
C20_WindowAroundCurrent ==
    ~tally.raised =>
        /\ Len(window) = 2 * windowsize + 1
        /\ \A k \in (0 - windowsize)..windowsize :
              /\ ~IsNone(get_step(Dbg, k))
              /\ IF 0 <= StepsDone + k /\ StepsDone + k < Len(logs)
                 THEN /\ valid(Get(get_step(Dbg, k)))
                      /\ Get(Get(get_step(Dbg, k)).step).index = StepsDone + k
                      /\ Get(Get(get_step(Dbg, k)).step).op = logs[StepsDone + k + 1].op
                      /\ Get(Get(get_step(Dbg, k)).step).pc = logs[StepsDone + k + 1].pc
                 ELSE Get(get_step(Dbg, k)) = INVALID_STEP

\* C20: after as many step() calls as the window size, on a trace of 2W+1 steps, the
\* window holds the whole trace: step 0 at offset -W and the last step at offset W
C20_Witness ==
    /\ ~tally.raised /\ tally.calls = MaxCoreWindow
    /\ windowsize = MaxCoreWindow /\ Len(logs) = 2 * MaxCoreWindow + 1
    /\ Get(Get(get_step(Dbg, 0 - windowsize)).step).index = 0
    /\ Get(Get(get_step(Dbg, 0)).step).index = windowsize
    /\ Get(Get(get_step(Dbg, windowsize)).step).index = Len(logs) - 1

\* the caller has made as many step() calls as the trace has steps after the first, and
\* nothing has raised: the trace is exhausted
TraceExhausted == ~tally.raised /\ tally.calls >= Len(logs)

\* C21: once the trace is exhausted the current step is invalid; a step() made while the
\* current step is invalid leaves it invalid and leaves the frame stack as it was
C21_ExhaustedStepIsNoOp ==
    /\ [](TraceExhausted => ~valid(Get(get_step(Dbg, 0))))
    /\ [][~valid(Get(get_step(Dbg, 0))) =>
             /\ ~valid(Get(get_step(Dbg, 0))')
             /\ frames' = frames
             /\ reply'.status = "ok"]_vars

\* C21: a second step() after the end of a trace whose steps filed locals into a frame
C21_Witness ==
    /\ TraceExhausted /\ tally.calls = Len(logs) + CoreExtra
    /\ request.command = "step()" /\ request.position >= Len(logs)
    /\ ~valid(Get(get_step(Dbg, 0)))
    /\ \E k \in 1..Len(frames) : frames[k].locals # {}

\* the call-stack event of the current step
CurrentEvent == Get(get_step(Dbg, 0)).event

\* what a step() that returns does to the frame stack, by the event of the step it
\* makes current: a push adds one frame anchored at the event's pair, a pop removes the
\* top frame, anything else keeps the number of frames; the frames below the top of
\* the new stack are as they were
FrameStackFollowsEvent ==
    /\ \A k \in 1..(Len(frames') - 1) : k <= Len(frames) /\ frames'[k] = frames[k]
    /\ IF CurrentEvent'.event = "push"
       THEN /\ Len(frames') = Len(frames) + 1
            /\ Last(frames').prev = Some(Get(CurrentEvent'.data).prev)
            /\ Last(frames').cur = Some(Get(CurrentEvent'.data).step)
       ELSE IF CurrentEvent'.event = "pop"
       THEN /\ Len(frames') = Len(frames) - 1
            /\ frames' # <<>> =>
                  /\ Last(frames').prev = frames[Len(frames')].prev
                  /\ Last(frames').cur = frames[Len(frames')].cur
       ELSE Len(frames') = Len(frames)

\* right after construction there is one root frame, anchored at the first step of the
\* trace, and at any time the depth is 1 + pushes - pops
RootAndDepth ==
    ~tally.raised =>
        /\ tally.calls = 0 =>
              frames = <<Frame(Get(get_step(Dbg, 0)).step, Get(get_step(Dbg, 0)).step)>>
        /\ get_callstack_depth(Dbg) = 1 + tally.pushes - tally.pops

Range(seq) == {seq[k] : k \in 1..Len(seq)}

MaxCode == 4

\* byte values around the push opcodes 0x60..0x7f: STOP, 0x5f, PUSH1, PUSH2, PUSH32, DUP1
CodeBytes == {0, 95, 96, 97, 127, 128}

Applied(function, input) ==
    [command |-> function, arg |-> Some(input), position |-> 0, depth |-> 0]

Returned(function, value) == [status |-> "ok", type |-> function, value |-> value]

InitPure ==
    /\ logs = <<>>
    /\ iter = IterInit
    /\ windowsize = 0
    /\ window = <<>>
    /\ window_offset = 0
    /\ frames = <<>>
    /\ breakpoints = {}
    /\ current_frame = 0
    /\ oui_quit = FALSE
    /\ request = NoRequest
    /\ reply = Returned("none", None)
    /\ evm = NoEvm
    /\ tally = NoTally

\* a function is applied once, to the input chosen
Unapplied == request = NoRequest

\* what every application leaves alone
PureFrame ==
    UNCHANGED <<logs, iter, windowsize, window, window_offset, frames, breakpoints,
                current_frame, oui_quit, evm, tally>>

\* FrameDecoder._map_address_to_instruction_number(bytecode)
MapAddresses(bytecode) ==
    /\ request' = Applied("_map_address_to_instruction_number", bytecode)
    /\ reply' = Returned("_map_address_to_instruction_number",
                         map_address_to_instruction_number(bytecode))
    /\ PureFrame

MaxMap == 5

\* the characters of the source maps decoded, and the source map "1:2:0:i;;3::1"
MapChars == {"1", "2", ":", ";", "i", "-"}
MapExample == <<"1", ":", "2", ":", "0", ":", "i", ";", ";", "3", ":", ":", "1">>

\* FrameDecoder._decode_source_map(srcmap)
DecodeSourceMap(srcmap) ==
    /\ request' = Applied("_decode_source_map", srcmap)
    /\ \E r \in {decode_source_map_string(srcmap)} :
           reply' = [Returned("_decode_source_map", r.out) EXCEPT
                        !.status = IF r.raised THEN "raised" ELSE "ok"]
    /\ PureFrame

MaxSource == 4

\* the characters of the sources searched, and the source "ab\ncd\nef"
SourceChars == {"a", "\n"}
SourceExample == <<"a", "b", "\n", "c", "d", "\n", "e", "f">>
Sources == (SeqsUpTo(SourceChars, MaxSource) \ {<<>>}) \cup {SourceExample}

\* SourcePosToLine(source).line_of(index)
LineOf(source, index) ==
    /\ request' = Applied("line_of", [source |-> source, index |-> index])
    /\ reply' = Returned("line_of", line_of(splits_of(source), index))
    /\ PureFrame

\* SourceMapper.get_source(unitname, st, 0, 0) at an offset of the compiled source
GetSource(st) ==
    /\ request' = Applied("get_source", st)
    /\ reply' = Returned("get_source", get_source(UnitName, st, 0, 0))
    /\ PureFrame

MaxInput == 3

\* the bytes of creation bytecodes and deployment inputs, and the candidates' names in
\* the order of registration
InputBytes == {1, 2}
CandidateNames == <<"K1", "K2", "K3">>
MaxCandidates == Len(CandidateNames)

\* contracts_bin for the creation bytecodes `codes`
Candidates(codes) ==
    [k \in 1..Len(codes) |->
        [unitname |-> UnitName, contractname |-> CandidateNames[k], bytecode |-> codes[k]]]

\* AddressToContract._search_contract(contract_bin, contract_bytecode)
SearchContract(contract_bin, contract_bytecode) ==
    /\ request' = Applied("_search_contract",
                          [contract_bin |-> contract_bin,
                           contract_bytecode |-> contract_bytecode])
    /\ reply' = Returned("_search_contract", search_contract(contract_bin, contract_bytecode))
    /\ PureFrame

NextPure ==
    /\ Unapplied
    /\ \/ \E bytecode \in SeqsUpTo(CodeBytes, MaxCode) : MapAddresses(bytecode)
       \/ \E srcmap \in SeqsUpTo(MapChars, MaxMap) \cup {MapExample} : DecodeSourceMap(srcmap)
       \/ \E source \in Sources : \E index \in 0..(Len(source) - 1) : LineOf(source, index)
       \/ \E st \in 0..(Last(Splits) + Last(LineLens)) : GetSource(st)
       \/ \E codes \in SeqsUpTo(SeqsUpTo(InputBytes, MaxInput - 1), MaxCandidates) :
              \E contract_bytecode \in SeqsUpTo(InputBytes, MaxInput) :
                  SearchContract(Candidates(codes), contract_bytecode)

SpecPure == InitPure /\ [][NextPure]_vars

\* the function last applied, its input and its result
Applies(function) == request.command = function
Input == Get(request.arg)
Output == reply.value

\* the number of payload bytes of an opcode: opcode - 0x5f for 0x60..0x7f, else none
Payload(opcode) == IF opcode >= 96 /\ opcode <= 127 THEN opcode - 95 ELSE 0

\* the addresses at which an instruction starts, from address a on: an instruction
\* starts where the one before it, its payload included, ends
RECURSIVE InstructionStarts(_, _)
InstructionStarts(bytecode, a) ==
    IF a >= Len(bytecode) THEN {}
    ELSE {a} \cup InstructionStarts(bytecode, a + 1 + Payload(bytecode[a + 1]))

\* the index of the instruction that starts at a
NumberOf(bytecode, a) == Cardinality({b \in InstructionStarts(bytecode, 0) : b < a})

\* C23: the table has an entry for every byte address; an instruction at address a with
\* k payload bytes maps a..a+k to its index, and a+k+1, when the bytecode goes on, to
\* the next index; a bytecode without push opcodes is mapped by the identity
C23_AddressTable ==
    Applies("_map_address_to_instruction_number") =>
        /\ Len(Output) >= Len(Input)
        /\ \A a \in InstructionStarts(Input, 0) :
              /\ \A x \in a..(a + Payload(Input[a + 1])) :
                    x < Len(Output) /\ Output[x + 1] = NumberOf(Input, a)
              /\ a + Payload(Input[a + 1]) + 1 < Len(Input) =>
                    Output[a + Payload(Input[a + 1]) + 2] = NumberOf(Input, a) + 1
        /\ (\A x \in 1..Len(Input) : Payload(Input[x]) = 0) =>
              Output = [x \in 1..Len(Input) |-> x - 1]

\* C23: PUSH2 with a payload byte that is itself a push opcode, then STOP
C23_Witness ==
    /\ Applies("_map_address_to_instruction_number")
    /\ Input = <<97, 96, 0, 0>>
    /\ Output = <<0, 0, 0, 1>>

\* the positions lo..hi of chars that hold the separator, and the k-th of a set of
\* positions
SepsIn(chars, sep, lo, hi) == {p \in lo..hi : chars[p] = sep}
Nth(S, k) == CHOOSE p \in S : Cardinality({q \in S : q < p}) = k - 1

\* the k-th of the pieces that the separators cut chars[lo..hi] into
Piece(chars, sep, lo, hi, k) ==
    LET S == SepsIn(chars, sep, lo, hi)
    IN  SubSeq(chars,
               IF k = 1 THEN lo ELSE Nth(S, k - 1) + 1,
               IF k = Cardinality(S) + 1 THEN hi ELSE Nth(S, k) - 1)

\* record k of a source map, and the text of its field j (empty when it has no field j)
RecordOf(chars, k) == Piece(chars, ";", 1, Len(chars), k)
FieldText(chars, k, j) ==
    IF j > Cardinality(SepsIn(RecordOf(chars, k), ":", 1, Len(RecordOf(chars, k)))) + 1
    THEN <<>>
    ELSE Piece(RecordOf(chars, k), ":", 1, Len(RecordOf(chars, k)), j)

\* field j of a tuple (start, length, file, jump)
FieldOf(t, j) == IF j = 1 THEN t.st ELSE IF j = 2 THEN t.le ELSE IF j = 3 THEN t.fi ELSE t.ju

\* C24: the result has one tuple for each ';'-separated record; field j of tuple k is
\* the record's own field when it is there and not empty, else field j of tuple k - 1,
\* and of (0, 0, 0, '-') for the first record; "1:2:0:i;;3::1" gives
\* [(1,2,0,'i'), (1,2,0,'i'), (3,2,1,'i')]
C24_SourceMapDecompressed ==
    Applies("_decode_source_map") /\ reply.status = "ok" =>
        /\ Len(Output) = Cardinality(SepsIn(Input, ";", 1, Len(Input))) + 1
        /\ \A k \in 1..Len(Output) : \A j \in 1..4 :
              FieldOf(Output[k], j) =
                  IF FieldText(Input, k, j) # <<>>
                  THEN IF j <= 3 THEN Get(int_of(FieldText(Input, k, j)))
                       ELSE join(FieldText(Input, k, j))
                  ELSE IF k = 1 THEN FieldOf(NoMapping, j)
                  ELSE FieldOf(Output[k - 1], j)
        /\ Input = MapExample =>
              Output = <<[st |-> 1, le |-> 2, fi |-> 0, ju |-> "i"],
                         [st |-> 1, le |-> 2, fi |-> 0, ju |-> "i"],
                         [st |-> 3, le |-> 2, fi |-> 1, ju |-> "i"]>>

\* C24: "1:2:0:i;;3::1" has been decompressed into three tuples
C24_Witness ==
    /\ Applies("_decode_source_map") /\ reply.status = "ok"
    /\ Input = MapExample
    /\ Len(Output) = 3 /\ Output[2] = Output[1] /\ Output[3].le = 2

\* the number of newline characters of a source before an offset
NewlinesBefore(source, index) == Cardinality({p \in 1..index : source[p] = "\n"})

\* C25: for an offset that does not hold a newline, line_of returns as line index the
\* number of newlines before the offset; on "ab\ncd\nef" that is line 0 for offsets 0
\* and 1, line 1 for offsets 3 and 4, line 2 for offsets 6 and 7
C25_LineIndex ==
    Applies("line_of") /\ Input.source[Input.index + 1] # "\n" =>
        /\ Output.line_index = NewlinesBefore(Input.source, Input.index)
        /\ Input.source = SourceExample =>
              Output.line_index = (IF Input.index <= 1 THEN 0
                                   ELSE IF Input.index <= 4 THEN 1 ELSE 2)

\* C25: offset 4 of "ab\ncd\nef", the d, has been found on line 1
C25_Witness ==
    /\ Applies("line_of")
    /\ Input.source = SourceExample /\ Input.index = 4
    /\ Output.line_index = 1

\* the greatest line start that is <= an offset: 0, or the offset after the last
\* newline before the offset
LineStartOf(source, index) ==
    IF NewlinesBefore(source, index) = 0 THEN 0
    ELSE CHOOSE p \in 1..index :
            source[p] = "\n" /\ \A q \in (p + 1)..index : source[q] # "\n"

\* C26: the line start line_of returns for an offset is the greatest line start that is
\* <= the offset, and the column get_source reports for an offset of the compiled
\* source is the offset minus that line start
C26_LineStart ==
    /\ Applies("line_of") => Output.line_start = LineStartOf(Input.source, Input.index)
    /\ Applies("get_source") =>
          \E start \in {0} \cup {Splits[k] + 1 : k \in 1..Len(Splits)} :
              /\ start <= Input
              /\ \A k \in 1..Len(Splits) : Splits[k] + 1 <= Input => Splits[k] + 1 <= start
              /\ Output.line_pos = Input - start

\* the candidates of the last search whose bytecode, not empty, is a byte-for-byte
\* prefix of the input
Matching ==
    {k \in 1..Len(Input.contract_bin) :
        /\ Input.contract_bin[k].bytecode # <<>>
        /\ Len(Input.contract_bin[k].bytecode) <= Len(Input.contract_bytecode)
        /\ \A b \in 1..Len(Input.contract_bin[k].bytecode) :
              Input.contract_bin[k].bytecode[b] = Input.contract_bytecode[b]}

\* C27: the contract identified is the first registered of the matching candidates of
\* greatest length, so that no shorter matching candidate is chosen over a longer one;
\* none is identified when no candidate matches
C27_LongestPrefix ==
    Applies("_search_contract") =>
        IF Matching = {} THEN IsNone(Output)
        ELSE \E k \in Matching :
                /\ Get(Output).contractname = Input.contract_bin[k].contractname
                /\ Get(Output).unitname = Input.contract_bin[k].unitname
                /\ \A j \in Matching :
                      /\ Len(Input.contract_bin[j].bytecode) <= Len(Input.contract_bin[k].bytecode)
                      /\ Len(Input.contract_bin[j].bytecode) = Len(Input.contract_bin[k].bytecode)
                            => k <= j

\* C27: a shorter matching candidate is registered before the longer one, which is
\* registered twice, and the first of the longer ones is identified
C27_Witness ==
    /\ Applies("_search_contract")
    /\ Len(Input.contract_bin) = 3 /\ Matching = {1, 2, 3}
    /\ Len(Input.contract_bin[1].bytecode) < Len(Input.contract_bin[2].bytecode)
    /\ Input.contract_bin[2].bytecode = Input.contract_bin[3].bytecode
    /\ Get(Output).contractname = "K2"

\* seq is an initial part of seq2
IsPrefix(seq, seq2) == Len(seq) <= Len(seq2) /\ SubSeq(seq2, 1, Len(seq)) = seq

\* the frames that are on the frame stack before and after a step(): a push adds one on
\* top of them and a pop removes the one above them
Surviving == 1..(IF Len(frames) <= Len(frames') THEN Len(frames) ELSE Len(frames'))

\* the steps that are in the window before and after a step(), by their slot after it
Kept == 1..(Len(window) - 1)

\* C28 as stated: a step() leaves every value filed in a step's values or in a frame's
\* locals where it is, as it is, and only appends to a frame's return values
C28_ValuesAppendOnly ==
    [][/\ \A j \in Kept : window[j + 1].values \subseteq window'[j].values
       /\ \A k \in Surviving :
             /\ frames[k].locals \subseteq frames'[k].locals
             /\ IsPrefix(frames[k].return_values, frames'[k].return_values)]_vars

\* C28 amended: as C28, but of a frame's locals it is the names that stay: a step() may
\* replace the value filed under a name by the one it files under the same name
C28_NamesAppendOnly ==
    [][/\ \A j \in Kept : window[j + 1].values \subseteq window'[j].values
       /\ \A k \in Surviving :
             /\ \A v \in frames[k].locals : \E v2 \in frames'[k].locals : v2.name = v.name
             /\ IsPrefix(frames[k].return_values, frames'[k].return_values)]_vars

\* a step() has just filed 4 under x in a frame whose locals held x as 3, filed by the
\* step() before it, next to the parameter n
C28_Witness ==
    /\ request.command = "step()"
    /\ reply.status = "ok"
    /\ frames # <<>>
    /\ windowsize >= 1
    /\ \E was \in {Get(get_window_rel(Dbg, -1))}, is \in {Get(get_window_rel(Dbg, 0))} :
           /\ valid(was) /\ valid(is)
           /\ Get(was.step).op = "SWAP1" /\ Get(was.step).stack = <<3>>
           /\ Get(is.step).op = "SWAP1" /\ Get(is.step).stack = <<4>>
           /\ \E v \in Last(frames).locals : v.name = "x" /\ v.value = 4
           /\ \E v \in Last(frames).locals : v.name = "n"

(***************************************************************************)
(* CallStack.add, seen through step() (SpecCore): each step() draws one    *)
(* step from trace_iter, which hands it to CallStack.add; the event add    *)
(* returns is the one of the step appended to the window.                  *)
(***************************************************************************)
\* the step() about to be made has trace_iter call CallStack.add
AddCalled == ~iter.done /\ iter.i < Len(logs)

\* the step it calls add with, and add's previous step
AddedStep == TraceStep(iter.i, logs[iter.i + 1])

PrevStep == iter.callstack.prev_step

\* add returned and its step was yielded
Added == iter'.i = iter.i + 1 /\ ~iter'.done

\* the event of that step
AddedEvent == Last(window').event

\* the step is a JUMPDEST and the previous step a JUMP
JumpLands ==
    /\ AddCalled
    /\ AddedStep.op = "JUMPDEST"
    /\ PrevStep # None
    /\ Get(PrevStep).op = "JUMP"

\* the current call-stack level
HasLevel == iter.callstack.stack # <<>>

TopLevel == Last(iter.callstack.stack)

\* the step's pc is one past the call-site pc of the top element of the current level
AtReturnAddress ==
    /\ HasLevel
    /\ TopLevel # <<>>
    /\ AddedStep.pc = Last(TopLevel).prev.pc + 1

\* the (previous step, current step) pair
AddedPair == [prev |-> Get(PrevStep), step |-> AddedStep]

\* add emitted a push carrying the pair and put the pair on top of the current level
PairPushed ==
    /\ Added
    /\ AddedEvent = [event |-> "push", data |-> Some(AddedPair)]
    /\ iter'.callstack.stack =
           [iter.callstack.stack EXCEPT ![Len(iter.callstack.stack)] = Append(@, AddedPair)]

\* add emitted no event and left the call stack as it was
NothingEmitted ==
    /\ Added
    /\ AddedEvent = NoEvent
    /\ iter'.callstack.stack = iter.callstack.stack

\* C29 as stated: a JUMPDEST reached by a JUMP that is not the return address of the
\* enclosing call is reported as a push carrying (previous step, current step), and the
\* pair becomes the top of the current call-stack level
C29_JumpPushes ==
    [][JumpLands /\ ~AtReturnAddress => PairPushed]_vars

\* C29 amended: that holds when the JUMP has jump type 'i' and the call stack has a
\* level; a JUMP of another jump type emits nothing, and with no level left add raises
C29_CallJumpPushes ==
    [][JumpLands /\ ~AtReturnAddress =>
          IF ~HasLevel THEN reply'.status = "raised"
          ELSE IF Get(PrevStep).jumptype = "i" THEN PairPushed
          ELSE NothingEmitted]_vars

\* C29: the step() just made reported F's entry, reached by the JUMP at the call site,
\* as a push, and the pair is on top of the call stack
C29_Witness ==
    /\ request.command = "step()"
    /\ reply.status = "ok"
    /\ HasLevel
    /\ TopLevel # <<>>
    /\ Last(window).event = [event |-> "push", data |-> Some(Last(TopLevel))]
    /\ Last(TopLevel).step = Get(Last(window).step)
    /\ Last(TopLevel).step.op = "JUMPDEST"
    /\ Last(TopLevel).prev.jumptype = "i"

\* add emitted a pop and removed the top element of the current level
TopPopped ==
    /\ Added
    /\ AddedEvent = [event |-> "pop", data |-> None]
    /\ iter'.callstack.stack =
           [iter.callstack.stack EXCEPT ![Len(iter.callstack.stack)] = DelLast(@)]

\* the step is a JUMPDEST at the return address of the call whose call-site JUMP is the
\* top element of the current level
ReturnLands ==
    /\ AddCalled
    /\ AddedStep.op = "JUMPDEST"
    /\ AtReturnAddress
    /\ Last(TopLevel).prev.op = "JUMP"

\* C30 as stated: a JUMPDEST one past the pc of the call-site JUMP in the top element of
\* the current level is reported as a pop that removes that element, never as a push
C30_ReturnPops ==
    [][ReturnLands => TopPopped]_vars

\* C30 amended: that holds when the previous step is a JUMP; reached in another way the
\* JUMPDEST emits nothing; in neither case is it reported as a push
C30_ReturnJumpPops ==
    [][ReturnLands =>
          /\ IF PrevStep # None /\ Get(PrevStep).op = "JUMP" THEN TopPopped
             ELSE NothingEmitted
          /\ AddedEvent.event # "push"]_vars

\* C30: the step() just made reported the JUMPDEST after the call site, reached by F's
\* returning JUMP, as a pop, and the current level is empty again
C30_Witness ==
    /\ request.command = "step()"
    /\ reply.status = "ok"
    /\ Last(window).event = [event |-> "pop", data |-> None]
    /\ Get(Last(window).step).op = "JUMPDEST"
    /\ Get(Last(window).step).pc = 2
    /\ PrevStep # None
    /\ PrevStep = Last(window).step
    /\ iter.callstack.stack = << <<>> >>
    /\ tally.pushes >= 1

\* the call-family and the terminal instructions
CallFamily == {"CALL", "CALLCODE", "DELEGATECALL", "STATICCALL"}

Terminals == {"STOP", "RETURN"}

\* the step is at pc 0 and the previous step is a call-family instruction
CallLands ==
    /\ AddCalled
    /\ AddedStep.pc = 0
    /\ PrevStep # None
    /\ Get(PrevStep).op \in CallFamily

\* add emitted a push carrying the pair and opened a new level that holds the pair
LevelOpened ==
    /\ Added
    /\ AddedEvent = [event |-> "push", data |-> Some(AddedPair)]
    /\ iter'.callstack.stack = Append(iter.callstack.stack, <<AddedPair>>)

\* C31: a step at pc 0 that follows a call-family instruction is reported as a push
\* carrying (previous step, current step), and the pair starts a new call-stack level
C31_CallOpensLevel ==
    [][CallLands => LevelOpened]_vars

\* the step follows a terminal instruction
TerminalBefore ==
    /\ AddCalled
    /\ PrevStep # None
    /\ Get(PrevStep).op \in Terminals

\* add emitted a pop and removed the whole current level
LevelDiscarded ==
    /\ Added
    /\ AddedEvent = [event |-> "pop", data |-> None]
    /\ iter'.callstack.stack = DelLast(iter.callstack.stack)

\* C32: a step that follows a STOP or a RETURN is reported as a pop, and the whole
\* call-stack level of the call that ended is removed
C32_TerminalClosesLevel ==
    [][TerminalBefore => LevelDiscarded]_vars

(***************************************************************************)
(* The function of a frame (SpecCore)                                      *)
(***************************************************************************)
\* the function of the frame at position k before the step(): none for a frame the
\* step() pushes
FunctionBefore(k) == IF k <= Len(frames) THEN frames[k].function ELSE None

\* the step the step() made current is a JUMPDEST mapped to a FunctionDefinition node
\* of that name
AtDefinitionOf(name) ==
    \E s \in {Get(get_window_rel(Dbg, 0))'} :
        /\ valid(s)
        /\ Get(s.step).op = "JUMPDEST"
        /\ ~IsNone(s.ast.FunctionDefinition)
        /\ Get(s.ast.FunctionDefinition).name = name

\* C33: a step() sets the function of a frame only when the frame is on top and had
\* none and the step is a JUMPDEST mapped to a FunctionDefinition; a function once set
\* keeps its name and its parameter values while the frame is on the stack
C33_FunctionResolvedOnce ==
    [][\A k \in 1..Len(frames') :
          IF IsNone(FunctionBefore(k))
          THEN ~IsNone(frames'[k].function) =>
                   k = Len(frames') /\ AtDefinitionOf(Get(frames'[k].function).name)
          ELSE frames'[k].function = frames[k].function]_vars

\* C33: F's frame holds F with the argument 7 of the call, and the step() just made
\* has made F's entry current again, reached by a conditional jump, with 8 on the stack
C33_Witness ==
    /\ request.command = "step()"
    /\ reply.status = "ok"
    /\ Len(frames) = 2
    /\ ~IsNone(Last(frames).function)
    /\ Get(Last(frames).function).name = "F"
    /\ \A k \in 1..Len(Get(Last(frames).function).parameters) :
           Get(Last(frames).function).parameters[k].value = 7
    /\ \E s \in {Get(get_window_rel(Dbg, 0))}, was \in {Get(get_window_rel(Dbg, -1))} :
           /\ windowsize >= 1
           /\ valid(s) /\ valid(was)
           /\ Get(was.step).op = "JUMPI"
           /\ Get(s.step).op = "JUMPDEST"
           /\ Get(s.step).stack = <<2, 8>>

(***************************************************************************)
(* The decoders trace_iter keeps (SpecDecode)                              *)
(***************************************************************************)
\* the last log entry up to entry k (counting from 1) that is at depth dp
LastAt(k, dp) ==
    CHOOSE j \in 1..k : logs[j].depth = dp /\ \A m \in (j + 1)..k : logs[m].depth # dp

\* the decoder for the code at an address: a FrameDecoder of the compiled contract the
\* address resolves to, else the pass-through one
DecoderOf(address) ==
    IF Unresolved(address) THEN "FrameDecoderDummy" ELSE "FrameDecoder"

\* the depth of the log entry the last next() worked on grew by one (the first entry
\* opens the first depth), or shrank by one
DepthGrew ==
    request.position = 0 \/ Decoded.depth = logs[request.position].depth + 1

DepthShrank ==
    request.position > 0 /\ Decoded.depth = logs[request.position].depth - 1

\* C34: when next() yields a step, the decoders stacked are as many as the depths open
\* (depth of the step - depth of the first step + 1), one more than before exactly when
\* the depth grew by one and one fewer exactly when it shrank by one; the decoder at
\* each level is the one of the code executing at that depth, and the step carries the
\* mapping the top one gives for its pc
C34_DecoderPerDepth ==
    reply.status = "yield" =>
        /\ Len(iter.tracestack) = Decoded.depth - logs[1].depth + 1
        /\ Len(iter.tracestack) = request.depth + (IF DepthGrew THEN 1
                                                   ELSE IF DepthShrank THEN -1 ELSE 0)
        /\ \A m \in 1..Len(iter.tracestack) :
              iter.tracestack[m].decoder =
                  DecoderOf(ExecAddress(logs, evm.to,
                                        LastAt(request.position + 1, logs[1].depth + m - 1)))
        /\ \E mp \in {get_mapping(Last(iter.tracestack).decoder, Decoded.pc).mapping} :
              /\ Get(reply.step).start = mp.st /\ Get(reply.step).length = mp.le
              /\ Get(reply.step).fileno = mp.fi /\ Get(reply.step).jumptype = mp.ju

\* C34: the fourth next() has yielded the caller's step that follows a call of the
\* compiled contract which has returned: one decoder is left, the caller's
C34_Witness ==
    /\ reply.status = "yield"
    /\ request.position = 3
    /\ logs[1].op = "CALL"
    /\ logs[2].depth = 1 /\ logs[3].depth = 1 /\ logs[4].depth = 0
    /\ request.depth = 2
    /\ Len(iter.tracestack) = 1
    /\ iter.tracestack[1].decoder = "FrameDecoder"

(***************************************************************************)
(* A stepping command pass by pass (SpecLoop): a session as in Spec, with  *)
(* any breakpoints set, in which a stepping command is issued whenever the *)
(* one before has answered, and the while loop of _continue makes one pass *)
(* at a time.  While a command runs the reply is "running", the locals     *)
(* prev_depth and depth of _continue and the number of step() calls made   *)
(* for the command are in tally, and the local prev is in evm.             *)
(***************************************************************************)
LoopExtra == 2

LoopBreakpoints == {{}, {"F"}, {"T.sol:2"}}

Running == reply.status = "running"

InitLoop ==
    /\ logs \in Traces
    /\ windowsize = SessionWindow
    /\ \E c \in {EvmDebugCore_init(logs, SessionWindow)} :
           /\ ~c.raised
           /\ window = c.d.window
           /\ window_offset = c.d.window_offset
           /\ frames = c.d.frames
           /\ iter = c.d.iter
    /\ breakpoints \in LoopBreakpoints
    /\ current_frame = 0
    /\ oui_quit = FALSE
    /\ reply = Reply("none", "none")
    /\ request = NoRequest
    /\ evm = [prev |-> INVALID_STEP]
    /\ tally = [prev_depth |-> 0, depth |-> 0, calls |-> 0]

\* ObjectInterface.call with a stepping command, up to the while loop of _continue:
\* the quit answer, or cmd_finish's own step(), then _continue's first three lines
LoopIssue(command) ==
    LET entered(d, calls) ==
            /\ SetDbg(d)
            /\ reply' = Reply("running", "none")
            /\ tally' = [prev_depth |-> get_callstack_depth(d), depth |-> 0, calls |-> calls]
            /\ evm' = [prev |-> Get(get_step(d, 0))]
            /\ UNCHANGED oui_quit
        finishing(r) ==
            IF r.raised
            THEN /\ SetDbg(r.d)
                 /\ reply' = oui_handle_error(Raise(r.d, "Exception", <<>>)).reply
                 /\ tally' = [tally EXCEPT !.calls = 1]
                 /\ UNCHANGED <<oui_quit, evm>>
            ELSE entered(r.d, 1)
    IN  /\ ~Running
        /\ request' = Request(command, None)
        /\ IF oui_quit
           THEN /\ reply' = Reply("quit", "none")
                /\ tally' = [tally EXCEPT !.calls = 0]
                /\ UNCHANGED <<window, window_offset, frames, iter, oui_quit, evm>>
           ELSE IF command = "finish" THEN finishing(step(logs, Dbg))
           ELSE entered(Dbg, 0)
        /\ UNCHANGED <<logs, windowsize, breakpoints, current_frame>>

\* one pass through the while loop, and the answer when the pass raises
LoopPass ==
    LET passed(r, h) ==
            /\ SetDbg(r.d)
            /\ tally' = [tally EXCEPT !.depth = r.depth, !.calls = @ + 1]
            /\ reply' = IF r.exc = "again" THEN reply ELSE h.reply
            /\ oui_quit' = IF r.exc = "again" THEN oui_quit ELSE h.quit
        raised(r) == passed(r, oui_handle_error(r))
    IN  /\ Running
        /\ tally.calls < Len(logs) + LoopExtra
        /\ raised(continue_body(logs, Dbg, breakpoints, request.command,
                                tally.prev_depth, evm.prev, tally.depth))
        /\ UNCHANGED <<logs, windowsize, breakpoints, current_frame, request, evm>>

NextLoop ==
    \/ \E command \in Stepping : LoopIssue(command)
    \/ LoopPass

\* a pass of the loop, told by what it does to the state: the steps of NextLoop that
\* count one more step() call while a command runs are those of LoopPass, and one is
\* possible wherever LoopPass is
PassTaken ==
    /\ Running
    /\ tally.calls < Len(logs) + LoopExtra
    /\ \E depth \in (0 - Len(logs) - 1)..(Len(logs) + 1) :
           tally' = [tally EXCEPT !.depth = depth, !.calls = @ + 1]

\* once in the loop, the interpreter goes on executing it
SpecLoop == InitLoop /\ [][NextLoop]_vars /\ WF_tally(PassTaken)

\* the steps of the trace after the one that was current when the command was issued
\* (none when the trace is empty)
StepsLeft ==
    IF request.position < Len(logs) THEN Len(logs) - 1 - request.position ELSE 0

\* C35: a stepping command answers after finitely many step() calls: never more than
\* one for each step left in the trace and one that finds the trace exhausted (finish,
\* which makes a step() of its own before the loop, one more), and a command that finds
\* it exhausted answers end
C35_SteppingTerminates ==
    /\ [](request.command \in Stepping =>
            tally.calls <= StepsLeft + 1 + (IF request.command = "finish" THEN 1 ELSE 0))
    /\ [](request.command \in Stepping /\ ~Running /\ reply.status # "quit"
            /\ ~valid(Get(get_step(Dbg, 0))) => reply.type = "end")
    /\ Running ~> ~Running

\* C35: a continue issued at the first of three steps has answered end after three
\* passes of the loop
C35_Witness ==
    /\ request.command = "continue"
    /\ request.position = 0
    /\ Len(logs) = 3
    /\ tally.calls = 3
    /\ reply.type = "end"

(***************************************************************************)
(* The session with the `quit` command: the traces and the commands of the *)
(* inspecting session, `continue` and `quit`.                              *)
(***************************************************************************)

\* ObjectInterface.call with `quit`: cmd_quit calls quit() and answers type quit
QuitCmd ==
    /\ request' = Request("quit", None)
    /\ IF oui_quit
       THEN reply' = Reply("quit", "none") /\ UNCHANGED oui_quit
       ELSE reply' = Reply("ok", "quit") /\ oui_quit' = TRUE
    /\ UNCHANGED <<logs, windowsize, window, window_offset, frames, iter, breakpoints,
                   current_frame, evm, tally>>

NextQuit ==
    \/ Stepi
    \/ Continue
    \/ QuitCmd
    \/ \E name \in InspectBreakpoints : Break(name)
    \/ \E name \in InspectBreakpoints : Delete(name)
    \/ \E arg \in FrameArgs : FrameCmd(arg)
    \/ \E name \in PrintNames : PrintCmd(name)
    \/ \E obj \in BadRequests : BadRequest(obj)

SpecQuit == InitInspect /\ [][NextQuit]_vars

\* the call just made was a `quit` that ran, or a command that reported the end of
\* the trace
JustQuit ==
    \/ request'.command = "quit" /\ reply'.status = "ok"
    \/ reply'.status = "ok" /\ reply'.type = "end"

\* the call just made answered with status quit and changed nothing of the session
AnsweredQuit ==
    /\ reply'.status = "quit"
    /\ reply'.type = "none"
    /\ UNCHANGED <<window, window_offset, iter, frames, breakpoints, current_frame>>

\* C36: a `quit` command, and a stepping command that reports the end of the trace,
\* set the quit flag; once it is set it stays set, and every call answers with
\* status quit and leaves the trace position, the frame stack, the breakpoint set
\* and the selected frame as they are
C36_QuitAbsorbing ==
    [][/\ JustQuit => oui_quit'
       /\ oui_quit => oui_quit' /\ AnsweredQuit]_vars

\* C36: after the end of the trace was reported with a breakpoint set and frame 1
\* selected, a `break`, a `frame` or a stepping command was answered with quit
C36_Witness ==
    /\ oui_quit
    /\ reply.status = "quit"
    /\ request.command \in {"break", "frame", "stepi", "continue"}
    /\ breakpoints # {}
    /\ current_frame = 1

\* the offsets outside the window [-windowsize, windowsize] that are asked for: as
\* far out as three windows on either side
FarOffsets ==
    {offset \in (0 - 3 * MaxCoreWindow - 3)..(3 * MaxCoreWindow + 3) :
        offset < 0 - windowsize \/ offset > windowsize}

\* C37: get_step(offset) with an offset outside the window [-W, W] raises nothing and
\* returns the invalid sentinel
C37_OutsideWindowInvalid ==
    \A offset \in FarOffsets : get_step(Dbg, offset) = Some(INVALID_STEP)

(***************************************************************************)
(* EvmDebugCore over traces with an external call: the sequences of at     *)
(* most FrameLen of the steps in FrameSteps that follow the control flow   *)
(* (a CALL at pc 11 whose callee starts at pc 0, F called from pc 1 and    *)
(* returning to pc 2, STOP), in which a STOP that is not the last step     *)
(* ends an external call: the STOP of the transaction's own code ends the  *)
(* trace.                                                                  *)
(***************************************************************************)
FrameLen == 6

FrameSteps ==
    { Raw("JUMP", 1, <<2>>, 0, 2, 0, "i"),
      Raw("JUMPDEST", 4, <<2, 7>>, 5, 4, 0, "-"),
      Raw("JUMP", 6, <<2, 7, 2>>, 5, 4, 0, "o"),
      Raw("JUMPDEST", 2, <<7>>, 2, 2, 0, "-"),
      Raw("CALL", 11, <<>>, 0, 2, 0, "-"),
      Raw("PUSH1", 0, <<>>, 0, 0, -1, "-"),
      Raw("STOP", 10, <<>>, 0, 0, -1, "-") }

\* the number of steps with operation op among the first k steps of t
Count(t, op, k) == Cardinality({j \in 1..k : t[j].op = op})

FrameTraces ==
    {t \in SeqsUpTo(FrameSteps, FrameLen) :
        /\ t # <<>> => t[1].op # "JUMPDEST" /\ t[1].pc # 0
        /\ \A k \in 1..(Len(t) - 1) :
              /\ CoreFollows(t[k], t[k + 1])
              /\ t[k].op = "STOP" => Count(t, "CALL", k) > Count(t, "STOP", k - 1)}

InitFrames ==
    /\ logs \in FrameTraces
    /\ windowsize \in CoreWindows
    /\ \E c \in {EvmDebugCore_init(logs, windowsize)} :
           /\ window = c.d.window
           /\ window_offset = c.d.window_offset
           /\ frames = c.d.frames
           /\ iter = c.d.iter
           /\ reply = Reply(IF c.raised THEN "raised" ELSE "ok", "__init__")
           /\ tally = [calls |-> 0, raised |-> c.raised, pushes |-> 0, pops |-> 0]
    /\ breakpoints = {}
    /\ current_frame = 0
    /\ oui_quit = FALSE
    /\ request = NoRequest
    /\ evm = NoEvm

NextFrames == CoreStep

SpecFrames == InitFrames /\ [][NextFrames]_vars

\* the CallStack of trace_iter right after add() processed the first k steps of the
\* trace
RECURSIVE CallStackAfter(_)
CallStackAfter(k) ==
    IF k = 0 THEN CallStackInit
    ELSE CallStack_add(CallStackAfter(k - 1), TraceStep(k - 1, logs[k])).cs

\* CallStack.stack right after add() processed the current step
CurrentCallStack == Flatten(CallStackAfter(StepsDone + 1).stack)

\* step() was called, nothing raised, and the current step is a step of the trace
Stepped == tally.calls >= 1 /\ ~tally.raised /\ StepsDone < Len(logs)

\* C38: after a step() that moved onto a step of the trace, EvmDebugCore holds one
\* frame more than CallStack held elements right after it processed that step
C38_FramesMatchCallStack ==
    Stepped => Len(frames) = 1 + Len(CurrentCallStack)

\* the call just made reached a command that does not step, or no command at all,
\* and the answer reports failure: status error, or the found flag of `frame`, of
\* `print` or of `delete` false
FailureReported ==
    /\ ~oui_quit
    /\ request'.command \notin Stepping
    /\ \/ reply'.status = "error"
       \/ /\ reply'.status = "ok"
          /\ \/ request'.command = "frame" /\ ~reply'.frame_found
             \/ request'.command = "print" /\ ~reply'.variable_found
             \/ request'.command = "delete" /\ ~reply'.breakpoint_found

\* C39: a command that reports failure leaves the trace position, the frame stack,
\* the breakpoint set and the selected frame index as they were
C39_FailureChangesNothing ==
    [][FailureReported =>
          UNCHANGED <<window, window_offset, iter, frames, breakpoints, current_frame>>]_vars

====
